---------------------------- MODULE Spec2Model ----------------------------
(***************************************************************************)
(* A model of the IA-32 instruction decoder, class Disassembler of the     *)
(* definitive decoder variant (src/unnamed/part_003; lib/disasm.ts holds   *)
(* the same prefix, opCode, reset and done code without the x87 maps).     *)
(*                                                                         *)
(* One call disassemble(reader) is reset(reader).firstByte(): a chain of   *)
(* fluent calls on the Disassembler.  The model keeps the chain that is    *)
(* still to run in `pending` and runs one call of it per step, so that the *)
(* decode context is visible between the calls of one instruction.         *)
(***************************************************************************)
EXTENDS Integers, Sequences, FiniteSets, TLC

VARIABLES disassembler, reader, pending, result, history

vars == <<disassembler, reader, pending, result, history>>

-----------------------------------------------------------------------------
(* Enumerations.  A member is modelled by its name; its number is its      *)
(* position in the declaration, as in the TypeScript enum.                 *)

SizeNames ==
    <<"Int8", "Int16", "Int32", "Int64", "Int16Int16", "Int16Int32",
      "Int32Int32", "ByteByte", "Single", "Double", "ExtendedReal",
      "PackedBCD", "PseudoDescriptor6", "PseudoDescriptor10",
      "FloatingPointEnvironment14", "FloatingPointEnvironment28",
      "FloatingPointState94", "FLoatingPointState108">>

SegmentNames == <<"ES", "CS", "SS", "DS", "FS", "GS", "None">>

RegisterNames ==
    <<"AL", "AX", "EAX", "CL", "CX", "ECX", "DL", "DX", "EDX", "BL", "BX",
      "EBX", "AH", "SP", "ESP", "CH", "BP", "EBP", "DH", "SI", "ESI", "BH",
      "DI", "EDI", "CR0", "CR1", "CR2", "CR3", "DR0", "DR1", "DR2", "DR3",
      "DR4", "DR5", "DR6", "DR7", "Invalid">>

EnumValue(names, name) == (CHOOSE i \in 1..Len(names) : names[i] = name) - 1

SizeValue(size) == EnumValue(SizeNames, size)

SegmentValue(seg) == EnumValue(SegmentNames, seg)

RegisterValue(reg) == EnumValue(RegisterNames, reg)

-----------------------------------------------------------------------------
(* Operands.  Every operand is a record with a `type`; NullOperand is the  *)
(* null of an empty slot.                                                  *)

NullOperand == [type |-> "Null"]

RegisterOperand(reg) == [type |-> "Register", reg |-> reg]

SegmentOperand(seg) == [type |-> "Segment", seg |-> seg]

ImmediateOperand(value, size) ==
    [type |-> "Immediate", value |-> value, size |-> size]

CallOperand(segmentValue, offsetValue, size) ==
    [type |-> "Call", segmentValue |-> segmentValue,
     offsetValue |-> offsetValue, size |-> size]

AdditionOperand(left, right) ==
    [type |-> "Addition", left |-> left, right |-> right]

ScaleOperand(index, scale) ==
    [type |-> "Scale", index |-> index, scale |-> scale]

IndirectOperand(operand, size, segment) ==
    [type |-> "Indirect", operand |-> operand, size |-> size,
     segment |-> segment]

FloatingPointStackOperand(index) ==
    [type |-> "FloatingPointStack", index |-> index]

(* new Instruction(...) of done().                                         *)
Instruction(d) ==
    [address |-> d.address, opCode |-> d.opCode, isLocked |-> d.isLocked,
     isNear |-> d.isNear, repeatType |-> d.repeatType,
     operand1 |-> d.operand1, operand2 |-> d.operand2,
     operand3 |-> d.operand3]

-----------------------------------------------------------------------------
(* The outcome of running one call of the chain on the decoder d:          *)
(*   st    "ok", "error" (a LayoutError was thrown; msg is its message) or *)
(*         "need" (the call asked the reader for a byte the reader has not *)
(*         produced yet; msg is what the byte is read as)                  *)
(*   d     the decoder after the call, or at the throw or the read         *)
(*   k     what each byte the call has consumed was read as, in order      *)
(*   push  the calls that the call makes next, in order                    *)
(*   ret   <<the Instruction returned>>, for done() only                   *)
(*   val   the operand or number computed, for the helpers                 *)

Ok(d, k, push) ==
    [st |-> "ok", d |-> d, k |-> k, push |-> push, msg |-> "", ret |-> <<>>]

Throw(d, k, msg) ==
    [st |-> "error", d |-> d, k |-> k, push |-> <<>>, msg |-> msg,
     ret |-> <<>>]

Need(d, k, kind) ==
    [st |-> "need", d |-> d, k |-> k, push |-> <<>>, msg |-> kind,
     ret |-> <<>>]

Val(val, k) == [st |-> "ok", val |-> val, k |-> k, msg |-> ""]

ValThrow(k, msg) == [st |-> "error", val |-> NullOperand, k |-> k, msg |-> msg]

ValNeed(k, kind) == [st |-> "need", val |-> NullOperand, k |-> k, msg |-> kind]

(* A helper's failure, as the failure of the call that used it.            *)
Fail(d, r) == IF r.st = "need" THEN Need(d, r.k, r.msg) ELSE Throw(d, r.k, r.msg)

(* One call of the chain: the method, and its arguments by type.           *)
Call(op, code, n, size, flags) ==
    [op |-> op, code |-> code, n |-> n, size |-> size, flags |-> flags]

-----------------------------------------------------------------------------
(* The byte reader, as one call sees it: buf holds the bytes the reader    *)
(* produces next, and Len(k) of them have been consumed by the call.       *)

(* flagSet(value, flag); a set of flag names models the bit set.           *)
flagSet(flags, flag) == flag \in flags

Pow256(index) == 256 ^ index

RECURSIVE LowBytes(_, _, _)
(* The loop of readImmediate: the sum of read() << (8 * index) over the    *)
(* bytes buf[at + 1 .. at + count], index running from 0.                  *)
LowBytes(buf, at, count) ==
    IF count = 0 THEN 0
    ELSE LowBytes(buf, at, count - 1) + buf[at + count] * Pow256(count - 1)

(* readImmediate(size, isSigned).  The loop runs while index < size - 1,   *)
(* with size the enum number (Int8 = 0, Int16 = 1, Int32 = 2), and one     *)
(* more byte is read after it.  A signed value is read as sign and         *)
(* magnitude: bit 7 of the last byte negates the sum of the other bits.    *)
readImmediate(buf, k, size, isSigned) ==
    LET count == IF SizeValue(size) - 1 > 0 THEN SizeValue(size) - 1 ELSE 0
        at == Len(k)
        low == LowBytes(buf, at, count)
        lastByte == buf[at + count + 1]
        kAll == k \o [j \in 1..(count + 1) |-> "imm"]
        kHave == k \o [j \in 1..(Len(buf) - at) |-> "imm"]
    IN  IF Len(buf) < at + count + 1 THEN ValNeed(kHave, "imm")
        ELSE IF isSigned
        THEN LET value == low + (lastByte % 128) * Pow256(count)
             IN  Val(IF lastByte >= 128 THEN -value ELSE value, kAll)
        ELSE Val(low + lastByte * Pow256(count), kAll)

(* A variant of ensureModrm() that does not look at _readModrm and reads   *)
(* a byte on every demand.                                                 *)
ensureModrmAlways(d, buf, k) ==
    IF Len(buf) <= Len(k)
    THEN [st |-> "need", d |-> d, k |-> k, val |-> 0, msg |-> "modrm"]
    ELSE [st |-> "ok",
          d |-> [d EXCEPT !.modrm = buf[Len(k) + 1], !.readModrm = TRUE],
          k |-> Append(k, "modrm"), val |-> buf[Len(k) + 1], msg |-> ""]

(* ensureModrm(): the ModR/M byte, read from the reader on first demand.   *)
ensureModrm(d, buf, k) ==
    IF ~d.readModrm
    THEN IF Len(buf) <= Len(k)
         THEN [st |-> "need", d |-> d, k |-> k, val |-> 0, msg |-> "modrm"]
         ELSE [st |-> "ok",
               d |-> [d EXCEPT !.modrm = buf[Len(k) + 1], !.readModrm = TRUE],
               k |-> Append(k, "modrm"), val |-> buf[Len(k) + 1], msg |-> ""]
    ELSE [st |-> "ok", d |-> d, k |-> k, val |-> d.modrm, msg |-> ""]

reg(modrm) == (modrm \div 8) % 8

mod(modrm) == modrm \div 64

rm(modrm) == modrm % 8

decodeOperandSize(d, index) == IF index % 2 = 1 THEN d.operandSize ELSE "Int8"

(* RegisterOperand.getRegister(reg), reg a number.                         *)
getRegister(regNumber, k) ==
    IF regNumber < 0 \/ regNumber > RegisterValue("Invalid")
    THEN ValThrow(k, "invalid register")
    ELSE Val(RegisterOperand(RegisterNames[regNumber + 1]), k)

decodeRegister(index, operandSize, k) ==
    getRegister((index * 3) + SizeValue(operandSize), k)

(* register(reg), reg a member of Register.                                *)
register(regName) == RegisterOperand(regName)

(* A variant of getSegment whose range test lets Segment.None through.     *)
getSegmentOfAny(segNumber, k) ==
    IF segNumber < 0 \/ segNumber > SegmentValue("None")
    THEN ValThrow(k, "invalid segment register")
    ELSE Val(SegmentOperand(SegmentNames[segNumber + 1]), k)

(* SegmentOperand.getSegment(seg), seg a number.                           *)
getSegment(segNumber, k) ==
    IF segNumber < 0 \/ segNumber >= SegmentValue("None")
    THEN ValThrow(k, "invalid segment register")
    ELSE Val(SegmentOperand(SegmentNames[segNumber + 1]), k)

displacement(buf, k, displacementSize) ==
    LET r == readImmediate(buf, k, displacementSize, TRUE)
    IN  IF r.st = "ok" THEN Val(ImmediateOperand(r.val, displacementSize), r.k)
        ELSE r

immediate(buf, k, immediateSize) ==
    LET r == readImmediate(buf, k, immediateSize, FALSE)
    IN  IF r.st = "ok" THEN Val(ImmediateOperand(r.val, immediateSize), r.k)
        ELSE r

literal(value) == ImmediateOperand(value, "Int8")

(* The displacement that follows a SIB byte whose base is 5, by the       *)
(* switch on scale.                                                        *)
sibDisplacement(buf, k, scale) ==
    CASE scale = 1 -> displacement(buf, k, "Int32")
      [] scale = 2 -> displacement(buf, k, "Int8")
      [] scale = 4 -> displacement(buf, k, "Int32")
      [] OTHER -> ValThrow(k, "invalid sib byte")

(* The operand of a SIB byte of the given fields; k counts the SIB byte,   *)
(* disp is the displacement read for base 5.                               *)
sibOperand(scale, index, base, k, disp) ==
    LET hasScale == index # 4 /\ scale > 0
        scaleOperand ==
            ScaleOperand(decodeRegister(index, "Int32", k).val, 2 ^ scale)
        baseOperand == decodeRegister(base, "Int32", k).val
        hasBase == scale # 1
    IN  IF base # 5
        THEN Val(IF hasScale THEN AdditionOperand(baseOperand, scaleOperand)
                 ELSE baseOperand, k)
        ELSE IF disp.st # "ok" THEN disp
        ELSE Val(IF hasScale /\ hasBase
                 THEN AdditionOperand(scaleOperand,
                                      AdditionOperand(baseOperand, disp.val))
                 ELSE IF hasScale THEN AdditionOperand(scaleOperand, disp.val)
                 ELSE IF hasBase THEN AdditionOperand(baseOperand, disp.val)
                 ELSE disp.val, disp.k)

(* sib(): the SIB byte and the displacement it asks for.                   *)
sib(buf, k) ==
    IF Len(buf) <= Len(k) THEN ValNeed(k, "sib")
    ELSE sibOperand((buf[Len(k) + 1] \div 64) % 4,
                    (buf[Len(k) + 1] \div 8) % 8, buf[Len(k) + 1] % 8,
                    Append(k, "sib"),
                    sibDisplacement(buf, Append(k, "sib"),
                                    (buf[Len(k) + 1] \div 64) % 4))

(* A variant of nextOperand(operand) without the test of the destination   *)
(* under LOCK.                                                             *)
nextOperandOfAnyDestination(d, k, operand) ==
    LET d1 == [d EXCEPT !.operandCount = d.operandCount + 1]
    IN  CASE d1.operandCount = 1 -> Ok([d1 EXCEPT !.operand1 = operand], k, <<>>)
          [] d1.operandCount = 2 -> Ok([d1 EXCEPT !.operand2 = operand], k, <<>>)
          [] d1.operandCount = 3 -> Ok([d1 EXCEPT !.operand3 = operand], k, <<>>)
          [] OTHER -> Throw(d1, k, "invalid number of arguments")

(* A variant of nextOperand(operand) whose second case assigns _operand1,  *)
(* so that the second operand replaces the first.                          *)
nextOperandOverwriting(d, k, operand) ==
    LET d1 == [d EXCEPT !.operandCount = d.operandCount + 1]
    IN  CASE d1.operandCount = 1 ->
               IF d.isLocked /\ operand.type = "Register"
               THEN Throw(d1, k, "invalid destination")
               ELSE Ok([d1 EXCEPT !.operand1 = operand], k, <<>>)
          [] d1.operandCount = 2 -> Ok([d1 EXCEPT !.operand1 = operand], k, <<>>)
          [] d1.operandCount = 3 -> Ok([d1 EXCEPT !.operand3 = operand], k, <<>>)
          [] OTHER -> Throw(d1, k, "invalid number of arguments")

(* nextOperand(operand): the count is raised before the slot is chosen.    *)
nextOperand(d, k, operand) ==
    LET d1 == [d EXCEPT !.operandCount = d.operandCount + 1]
    IN  CASE d1.operandCount = 1 ->
               IF d.isLocked /\ operand.type = "Register"
               THEN Throw(d1, k, "invalid destination")
               ELSE Ok([d1 EXCEPT !.operand1 = operand], k, <<>>)
          [] d1.operandCount = 2 -> Ok([d1 EXCEPT !.operand2 = operand], k, <<>>)
          [] d1.operandCount = 3 -> Ok([d1 EXCEPT !.operand3 = operand], k, <<>>)
          [] OTHER -> Throw(d1, k, "invalid number of arguments")

(* nextOperand of a helper's value, or the helper's failure.               *)
nextOperandOf(d, r) == IF r.st = "ok" THEN nextOperand(d, r.k, r.val) ELSE Fail(d, r)

segmentOperand(d, k, segNumber) == nextOperandOf(d, getSegment(segNumber, k))

registerOperand(d, k, regNumber) == nextOperandOf(d, getRegister(regNumber, k))

encodedRegisterOperand(d, k, index, operandSize) ==
    nextOperandOf(d, decodeRegister(index, operandSize, k))

regOperand(d, buf, operandSize, flags) ==
    LET e == ensureModrm(d, buf, <<>>)
        r == reg(e.val)
    IN  IF e.st # "ok" THEN Need(e.d, e.k, e.msg)
        ELSE IF flagSet(flags, "Segment") THEN segmentOperand(e.d, e.k, r)
        ELSE IF flagSet(flags, "ControlRegister")
        THEN IF r > 3 THEN Throw(e.d, e.k, "invalid control register")
             ELSE registerOperand(e.d, e.k, RegisterValue("CR0") + r)
        ELSE IF flagSet(flags, "DebugRegister")
        THEN registerOperand(e.d, e.k, RegisterValue("DR0") + r)
        ELSE encodedRegisterOperand(e.d, e.k, r, operandSize)

(* The effective address of modrmOperand in 16-bit address mode.           *)
modrmAddress16(d, buf, k, modValue, rmValue) ==
    CASE rmValue = 0 -> Val(AdditionOperand(register("BX"), register("SI")), k)
      [] rmValue = 1 -> Val(AdditionOperand(register("BX"), register("DI")), k)
      [] rmValue = 2 -> Val(AdditionOperand(register("BP"), register("SI")), k)
      [] rmValue = 3 -> Val(AdditionOperand(register("BP"), register("DI")), k)
      [] rmValue = 4 -> Val(register("SI"), k)
      [] rmValue = 5 -> Val(register("DI"), k)
      [] rmValue = 6 -> IF modValue = 0 THEN displacement(buf, k, d.addressMode)
                        ELSE Val(register("BP"), k)
      [] rmValue = 7 -> Val(register("BX"), k)

(* The effective address of modrmOperand in 32-bit address mode.           *)
modrmAddress32(d, buf, k, modValue, rmValue) ==
    IF rmValue = 4 THEN sib(buf, k)
    ELSE IF rmValue = 5 /\ modValue = 0 THEN displacement(buf, k, d.addressMode)
    ELSE decodeRegister(rmValue, "Int32", k)

(* The displacement that mod adds to the effective address a.             *)
modrmDisplacement(d, buf, a, modValue) ==
    LET disp == IF modValue = 1 THEN displacement(buf, a.k, "Int8")
                ELSE displacement(buf, a.k, d.addressMode)
    IN  IF a.st # "ok" \/ modValue \notin {1, 2} THEN a
        ELSE IF disp.st # "ok" THEN disp
        ELSE Val(AdditionOperand(a.val, disp.val), disp.k)

(* The memory form of modrmOperand: the effective address, by address mode *)
modrmEffectiveAddress(d, buf, k, modValue, rmValue) ==
    modrmDisplacement(d, buf,
                      IF d.addressMode = "Int16"
                      THEN modrmAddress16(d, buf, k, modValue, rmValue)
                      ELSE modrmAddress32(d, buf, k, modValue, rmValue),
                      modValue)

(* A variant of the end of modrmOperand that wraps the address in an       *)
(* Indirect operand whatever the flags are.                                *)
modrmMemoryOperandWrapping(d, operandSize, flags, r) ==
    IF r.st # "ok" THEN Fail(d, r)
    ELSE nextOperand(d, r.k,
             IndirectOperand(r.val, operandSize, d.segmentOverride))

(* The end of modrmOperand for a memory operand at effective address r.    *)
modrmMemoryOperand(d, operandSize, flags, r) ==
    IF r.st # "ok" THEN Fail(d, r)
    ELSE nextOperand(d, r.k,
             IF flagSet(flags, "DontDereference") THEN r.val
             ELSE IndirectOperand(r.val, operandSize, d.segmentOverride))

(* A variant of modrmOperand that takes the register form for mod 3 only,  *)
(* whatever the flags are.                                                 *)
modrmOperandOfModOnly(e, buf, operandSize, flags) ==
    IF e.st # "ok" THEN Need(e.d, e.k, e.msg)
    ELSE IF mod(e.val) = 3
    THEN IF SizeValue(operandSize) > SizeValue("Int32")
            \/ flagSet(flags, "DontDereference")
         THEN Throw(e.d, e.k, "expected memory location")
         ELSE nextOperandOf(e.d, decodeRegister(rm(e.val), operandSize, e.k))
    ELSE modrmMemoryOperand(e.d, operandSize, flags,
             modrmEffectiveAddress(e.d, buf, e.k, mod(e.val), rm(e.val)))

(* modrmOperand behind its ensureModrm(), whose outcome is e.              *)
modrmOperandOf(e, buf, operandSize, flags) ==
    IF e.st # "ok" THEN Need(e.d, e.k, e.msg)
    ELSE IF mod(e.val) = 3 \/ flagSet(flags, "MustBeRegister")
    THEN IF SizeValue(operandSize) > SizeValue("Int32")
            \/ flagSet(flags, "DontDereference")
         THEN Throw(e.d, e.k, "expected memory location")
         ELSE nextOperandOf(e.d, decodeRegister(rm(e.val), operandSize, e.k))
    ELSE modrmMemoryOperand(e.d, operandSize, flags,
             modrmEffectiveAddress(e.d, buf, e.k, mod(e.val), rm(e.val)))

modrmOperand(d, buf, operandSize, flags) ==
    modrmOperandOf(ensureModrm(d, buf, <<>>), buf, operandSize, flags)

esdiOperand(d, operandSize) ==
    nextOperand(d, <<>>, IndirectOperand(register("DI"), operandSize, "ES"))

dssiOperand(d, operandSize) ==
    nextOperand(d, <<>>, IndirectOperand(register("SI"), operandSize, "DS"))

literalOperand(d, value) == nextOperand(d, <<>>, literal(value))

immediateOperand(d, buf, operandSize) ==
    nextOperandOf(d, immediate(buf, <<>>, operandSize))

(* ripOperand: the signed immediate plus reader.address() after reading    *)
(* it; address is the reader's address when the call began.                *)
ripOperand(d, buf, address, operandSize) ==
    LET r == readImmediate(buf, <<>>, operandSize, TRUE)
    IN  IF r.st # "ok" THEN Fail(d, r)
        ELSE nextOperand(d, r.k,
                 ImmediateOperand(r.val + address + Len(r.k), d.addressMode))

displacementOperand(d, buf, operandSize) ==
    nextOperandOf(d, displacement(buf, <<>>, operandSize))

offsetOperand(d, buf, operandSize) ==
    LET r == immediate(buf, <<>>, d.addressMode)
    IN  IF r.st # "ok" THEN Fail(d, r)
        ELSE nextOperand(d, r.k,
                 IndirectOperand(r.val, operandSize, d.segmentOverride))

callOperand(d, buf, flags) ==
    LET s == IF flagSet(flags, "Segment")
             THEN readImmediate(buf, <<>>, "Int16", FALSE)
             ELSE Val(SegmentValue(d.segmentOverride), <<>>)
        o == readImmediate(buf, s.k, d.addressMode, FALSE)
    IN  IF s.st # "ok" THEN Fail(d, s)
        ELSE IF o.st # "ok" THEN Fail(d, o)
        ELSE nextOperand(d, o.k, CallOperand(s.val, o.val, d.addressMode))

floatingPointOperand(d, index) ==
    nextOperand(d, <<>>, FloatingPointStackOperand(index))

-----------------------------------------------------------------------------
(* Prefixes, the mnemonic and the end of the chain.                        *)

(* A variant of segmentOverride(segment) that takes the segment prefix     *)
(* only in front of the operand size prefix.                               *)
segmentOverrideFirst(d, segment) ==
    IF d.segmentOverride # "None" \/ d.operandSizeOverridden
    THEN Throw(d, <<>>, "invalid segment override")
    ELSE Ok([d EXCEPT !.segmentOverride = segment], <<>>, <<>>)

segmentOverride(d, segment) ==
    IF d.segmentOverride # "None"
    THEN Throw(d, <<>>, "invalid segment override")
    ELSE Ok([d EXCEPT !.segmentOverride = segment], <<>>, <<>>)

(* A variant of addressModeOverride() that switches _operandSize in place  *)
(* of _addressMode.                                                        *)
addressModeOverrideOperand(d) ==
    IF d.addressModeOverridden
    THEN Throw(d, <<>>, "multiple address mode prefixes")
    ELSE Ok([d EXCEPT !.addressModeOverridden = TRUE,
                      !.operandSize = IF d.operandSize = "Int16" THEN "Int32"
                                      ELSE "Int16"], <<>>, <<>>)

addressModeOverride(d) ==
    IF d.addressModeOverridden
    THEN Throw(d, <<>>, "multiple address mode prefixes")
    ELSE Ok([d EXCEPT !.addressModeOverridden = TRUE,
                      !.addressMode = IF d.addressMode = "Int16" THEN "Int32"
                                      ELSE "Int16"], <<>>, <<>>)

(* A variant of operandSizeOverride() without the test for a second       *)
(* prefix: each prefix toggles the size and the flag.                      *)
operandSizeOverrideAgain(d) ==
    Ok([d EXCEPT !.operandSizeOverridden = ~d.operandSizeOverridden,
                 !.operandSize = IF d.operandSize = "Int16" THEN "Int32"
                                 ELSE "Int16"], <<>>, <<>>)

operandSizeOverride(d) ==
    IF d.operandSizeOverridden
    THEN Throw(d, <<>>, "multiple operand size prefixes")
    ELSE Ok([d EXCEPT !.operandSizeOverridden = TRUE,
                      !.operandSize = IF d.operandSize = "Int16" THEN "Int32"
                                      ELSE "Int16"], <<>>, <<>>)

(* A variant of repeatType() that does not record the prefix.              *)
repeatTypeDropped(d, type) ==
    IF d.repeatType # "None" \/ type = "None"
    THEN Throw(d, <<>>, "multiple repeat prefixes")
    ELSE Ok(d, <<>>, <<>>)

repeatType(d, type) ==
    IF d.repeatType # "None" \/ type = "None"
    THEN Throw(d, <<>>, "multiple repeat prefixes")
    ELSE Ok([d EXCEPT !.repeatType = type], <<>>, <<>>)

(* A variant of locked() without the test for a second LOCK prefix.        *)
lockedAgain(d) == Ok([d EXCEPT !.isLocked = TRUE], <<>>, <<>>)

locked(d) ==
    IF d.isLocked THEN Throw(d, <<>>, "multiple LOCK prefixes")
    ELSE Ok([d EXCEPT !.isLocked = TRUE], <<>>, <<>>)

near(d) ==
    IF d.isNear THEN Throw(d, <<>>, "internal error")
    ELSE Ok([d EXCEPT !.isNear = TRUE], <<>>, <<>>)

(* A variant of opCode() without the switch under _isLocked.               *)
opCodeUnlocked(d, k, code) ==
    IF d.opCode # "Invalid" THEN Throw(d, k, "internal error")
    ELSE IF d.repeatType = "Equal"
    THEN Throw(d, k, "invalid use of REP/REPE prefix")
    ELSE IF d.repeatType = "NotEqual"
    THEN Throw(d, k, "invalid use of REPNE prefix")
    ELSE Ok([d EXCEPT !.opCode = code], k, <<>>)

(* The mnemonics the three switches of opCode() list.                      *)
LockOpCodes ==
    {"ADD", "ADC", "AND", "BTC", "BTR", "BTS", "DEC", "INC", "NEG", "NOT",
     "OR", "SBB", "SUB", "XOR", "XCHG"}

RepeatOpCodes == {"INS", "OUTS", "MOVS", "LODS", "STOS", "CMPS", "SCAS"}

RepeatNotEqualOpCodes == {"CMPS", "SCAS"}

(* opCode(opCode).  Each of the three switches is on this._opCode, the     *)
(* field, which the first test has just found to be Invalid, and not on    *)
(* the parameter.                                                          *)
opCode(d, k, code) ==
    IF d.opCode # "Invalid" THEN Throw(d, k, "internal error")
    ELSE IF d.isLocked /\ d.opCode \notin LockOpCodes
    THEN Throw(d, k, "invalid use of LOCK prefix")
    ELSE IF d.repeatType = "Equal" /\ d.opCode \notin RepeatOpCodes
    THEN Throw(d, k, "invalid use of REP/REPE prefix")
    ELSE IF d.repeatType = "NotEqual" /\ d.opCode \notin RepeatNotEqualOpCodes
    THEN Throw(d, k, "invalid use of REPNE prefix")
    ELSE Ok([d EXCEPT !.opCode = code], k, <<>>)

(* done(): detaches the reader and returns the Instruction.                *)
done(d) ==
    IF d.opCode = "Invalid" THEN Throw(d, <<>>, "internal error")
    ELSE [Ok([d EXCEPT !.reader = FALSE], <<>>, <<>>)
             EXCEPT !.ret = <<Instruction(d)>>]

-----------------------------------------------------------------------------
(* The calls of a chain.                                                   *)

opCodeCall(code) == Call("opCode", code, 0, "Int8", {})

doneCall == Call("done", "", 0, "Int8", {})

firstByteCall == Call("firstByte", "", 0, "Int8", {})

nearCall == Call("near", "", 0, "Int8", {})

modrmOperandCall(operandSize, flags) ==
    Call("modrmOperand", "", 0, operandSize, flags)

regOperandCall(operandSize, flags) ==
    Call("regOperand", "", 0, operandSize, flags)

segmentOperandCall(seg) == Call("segmentOperand", seg, 0, "Int8", {})

registerOperandCall(regName) == Call("registerOperand", regName, 0, "Int8", {})

encodedRegisterOperandCall(index, operandSize) ==
    Call("encodedRegisterOperand", "", index, operandSize, {})

immediateOperandCall(operandSize) ==
    Call("immediateOperand", "", 0, operandSize, {})

literalOperandCall(value) == Call("literalOperand", "", value, "Int8", {})

ripOperandCall(operandSize) == Call("ripOperand", "", 0, operandSize, {})

offsetOperandCall(operandSize) == Call("offsetOperand", "", 0, operandSize, {})

callOperandCall(flags) == Call("callOperand", "", 0, "Int8", flags)

esdiOperandCall(operandSize) == Call("esdiOperand", "", 0, operandSize, {})

dssiOperandCall(operandSize) == Call("dssiOperand", "", 0, operandSize, {})

floatingPointOperandCall(index) ==
    Call("floatingPointOperand", "", index, "Int8", {})

arithmeticOperandsCall(index) == Call("arithmeticOperands", "", index, "Int8", {})

(* group1OpCode(), group2OpCode(), group4OpCode(), group6OpCode() and      *)
(* group8OpCode(), by the table of mnemonics each switches over.           *)
groupOpCodeCall(group) == Call("groupOpCode", group, 0, "Int8", {})

jumpOpCodeCall(index) == Call("jumpOpCode", "", index, "Int8", {})

setOpCodeCall(index) == Call("setOpCode", "", index, "Int8", {})

(* segmentOverride(s).firstByte(), and the like for the other prefixes.    *)
prefixCall(op, code) == <<Call(op, code, 0, "Int8", {}), firstByteCall>>

-----------------------------------------------------------------------------
(* The group tables, by the reg field; "" is a cell the switch leaves to   *)
(* its default, which throws.                                              *)

(* A variant of the group tables in which the unused cell of group 2 is    *)
(* taken as the shift of the cell before it.                               *)
GroupOpCodesAliased(group) ==
    CASE group = "1" -> <<"ADD", "OR", "ADC", "SBB", "AND", "SUB", "XOR", "CMP">>
      [] group = "2" -> <<"ROL", "ROR", "RCL", "RCR", "SHL", "SHR", "SHR", "SAR">>
      [] group = "4" -> <<"INC", "DEC", "", "", "", "", "", "">>
      [] group = "6" -> <<"SLDT", "SIDT", "LGDT", "LTR", "VERR", "VERW", "", "">>
      [] group = "8" -> <<"", "", "", "", "BT", "BTS", "BTR", "BTC">>

GroupOpCodes(group) ==
    CASE group = "1" -> <<"ADD", "OR", "ADC", "SBB", "AND", "SUB", "XOR", "CMP">>
      [] group = "2" -> <<"ROL", "ROR", "RCL", "RCR", "SHL", "SHR", "", "SAR">>
      [] group = "4" -> <<"INC", "DEC", "", "", "", "", "", "">>
      [] group = "6" -> <<"SLDT", "SIDT", "LGDT", "LTR", "VERR", "VERW", "", "">>
      [] group = "8" -> <<"", "", "", "", "BT", "BTS", "BTR", "BTC">>

groupOpCode(d, buf, group) ==
    LET e == ensureModrm(d, buf, <<>>)
        code == GroupOpCodes(group)[reg(e.val) + 1]
    IN  IF e.st # "ok" THEN Need(e.d, e.k, e.msg)
        ELSE IF code = "" THEN Throw(e.d, e.k, "internal error")
        ELSE opCode(e.d, e.k, code)

JumpOpCodes ==
    <<"JO", "JNO", "JB", "JNB", "JZ", "JNZ", "JBE", "JNBE", "JS", "JNS", "JP",
      "JNP", "JL", "JNL", "JLE", "JNLE">>

jumpOpCode(d, index) ==
    IF index \in 0..15 THEN opCode(d, <<>>, JumpOpCodes[index + 1])
    ELSE Throw(d, <<>>, "unexpected jump opcode")

SetOpCodes ==
    <<"SETO", "SETNO", "SETB", "SETNB", "SETZ", "SETNZ", "SETBE", "SETNBE",
      "SETS", "SETNS", "SETP", "SETNP", "SETL", "SETNL", "SETLE", "SETNLE">>

setOpCode(d, index) ==
    IF index \in 0..15 THEN opCode(d, <<>>, SetOpCodes[index + 1])
    ELSE Throw(d, <<>>, "unexpected set opcode")

(* arithmeticOperands(index): the switch is on index - 0x1.                *)
arithmeticOperands(d, index) ==
    LET operandSize == decodeOperandSize(d, index)
    IN  CASE index - 1 = 0 ->
               Ok(d, <<>>, <<modrmOperandCall(operandSize, {}),
                             regOperandCall(operandSize, {})>>)
          [] index - 1 = 2 ->
               Ok(d, <<>>, <<regOperandCall(operandSize, {}),
                             modrmOperandCall(operandSize, {})>>)
          [] index - 1 = 4 ->
               Ok(d, <<>>, <<encodedRegisterOperandCall(0, operandSize),
                             immediateOperandCall(operandSize)>>)
          [] OTHER -> Throw(d, <<>>, "unexpected opcode")

(* The operand size of a far pointer in memory, Mp.                        *)
farPointerSize(d) ==
    IF d.operandSize = "Int16" THEN "Int16Int16" ELSE "Int16Int32"

pseudoDescriptorSize(d) ==
    IF d.operandSize = "Int16" THEN "PseudoDescriptor6"
    ELSE "PseudoDescriptor10"

(* The chain `this.opCode(code).modrmOperand(size).done()`.                *)
unaryChain(code, operandSize) ==
    <<opCodeCall(code), modrmOperandCall(operandSize, {}), doneCall>>

group3Chain(d, first, regValue) ==
    LET operandSize == decodeOperandSize(d, first)
    IN  CASE regValue = 0 ->
               <<opCodeCall("TEST"), modrmOperandCall(operandSize, {}),
                 immediateOperandCall(operandSize), doneCall>>
          [] regValue = 2 -> unaryChain("NOT", operandSize)
          [] regValue = 3 -> unaryChain("NEG", operandSize)
          [] regValue = 4 -> unaryChain("MUL", operandSize)
          [] regValue = 5 -> unaryChain("IMUL", operandSize)
          [] regValue = 6 -> unaryChain("DIV", operandSize)
          [] regValue = 7 -> unaryChain("IDIV", operandSize)
          [] OTHER -> <<>>

group5Chain(d, regValue) ==
    CASE regValue = 0 -> unaryChain("INC", d.operandSize)
      [] regValue = 1 -> unaryChain("DEC", d.operandSize)
      [] regValue = 2 -> <<nearCall>> \o unaryChain("CALL", d.operandSize)
      [] regValue = 3 -> unaryChain("CALL", farPointerSize(d))
      [] regValue = 4 -> unaryChain("JMP", d.operandSize)
      [] regValue = 5 -> unaryChain("JMP", farPointerSize(d))
      [] regValue = 6 -> unaryChain("PUSH", d.operandSize)
      [] OTHER -> <<>>

group7Chain(d, regValue) ==
    CASE regValue = 0 -> unaryChain("SGDT", pseudoDescriptorSize(d))
      [] regValue = 1 -> unaryChain("SIDT", pseudoDescriptorSize(d))
      [] regValue = 2 -> unaryChain("LGDT", pseudoDescriptorSize(d))
      [] regValue = 3 -> unaryChain("LIDT", pseudoDescriptorSize(d))
      [] regValue = 4 -> unaryChain("SMSW", "Int16")
      [] regValue = 6 -> unaryChain("LMSW", "Int16")
      [] OTHER -> <<>>

(* group3(first), group5() and group7(): the ModR/M byte, then the chain   *)
(* of the reg field's case, or the throw of an unused case.                *)
groupChain(d, buf, group, first) ==
    LET e == ensureModrm(d, buf, <<>>)
        chain == CASE group = "3" -> group3Chain(e.d, first, reg(e.val))
                   [] group = "5" -> group5Chain(e.d, reg(e.val))
                   [] group = "7" -> group7Chain(e.d, reg(e.val))
    IN  IF e.st # "ok" THEN Need(e.d, e.k, e.msg)
        ELSE IF chain = <<>> THEN Throw(e.d, e.k, "internal error")
        ELSE Ok(e.d, e.k, chain)

groupCall(group, first) == Call("group", group, first, "Int8", {})

-----------------------------------------------------------------------------
(* escape(opcode): the x87 maps.  A case of the outer switch that returns  *)
(* nothing for a ModR/M byte falls through to the next case, D9 to DA and  *)
(* so on to DF, after which the method throws; <<>> is "returned nothing". *)

(* opCode(code).floatingPointOperand(0).floatingPointOperand(rm).done()    *)
st0StiChain(code, rmValue) ==
    <<opCodeCall(code), floatingPointOperandCall(0),
      floatingPointOperandCall(rmValue), doneCall>>

(* opCode(code).floatingPointOperand(rm).floatingPointOperand(0).done()    *)
stiSt0Chain(code, rmValue) ==
    <<opCodeCall(code), floatingPointOperandCall(rmValue),
      floatingPointOperandCall(0), doneCall>>

(* opCode(code).floatingPointOperand(rm).done()                            *)
stiChain(code, rmValue) ==
    <<opCodeCall(code), floatingPointOperandCall(rmValue), doneCall>>

(* opCode(code).done(), or nothing for a cell the switch does not list.    *)
plainChain(code) == IF code = "" THEN <<>> ELSE <<opCodeCall(code), doneCall>>

(* opCode(code).modrmOperand(size).done(), or nothing for an unlisted cell *)
memoryChain(code, operandSize) ==
    IF code = "" THEN <<>> ELSE unaryChain(code, operandSize)

environmentSize(d) ==
    IF d.operandSize = "Int16" THEN "FloatingPointEnvironment14"
    ELSE "FloatingPointEnvironment28"

stateSize(d) ==
    IF d.operandSize = "Int16" THEN "FloatingPointState94"
    ELSE "FLoatingPointState108"

ArithmeticNames ==
    <<"FADD", "FMUL", "FCOM", "FCOMP", "FSUB", "FSUBR", "FDIV", "FDIVR">>

IntegerNames ==
    <<"FIADD", "FIMUL", "FICOM", "FICOMP", "FISUB", "FISUBR", "FIDIV", "FIDIVR">>

escapeD8(modValue, regValue, rmValue) ==
    <<opCodeCall(ArithmeticNames[regValue + 1])>>
    \o (IF modValue = 3
        THEN <<floatingPointOperandCall(0), floatingPointOperandCall(rmValue),
               doneCall>>
        ELSE <<modrmOperandCall("Single", {}), doneCall>>)

(* D9, register form: the inner switches on rm of reg 4, 5 and 6, each     *)
(* falling through to the next when rm is not among its cases.             *)
escapeD9Row6(rmValue) ==
    plainChain(<<"F2XM1", "FYL2X", "FPTAN", "FPATAN", "FXTRACT", "FPREM1",
                 "FDECSTP", "FINCSTP">>[rmValue + 1])

escapeD9Row5(rmValue) ==
    LET c == plainChain(<<"FLD1", "FLDL2T", "FLDL2E", "FLDPI", "FLDLG2",
                          "FLDLN2", "FLDZ", "">>[rmValue + 1])
    IN  IF c # <<>> THEN c ELSE escapeD9Row6(rmValue)

escapeD9Row4(rmValue) ==
    LET c == plainChain(<<"FCHS", "FABS", "", "", "FTST", "FXAM", "", "">>
                            [rmValue + 1])
    IN  IF c # <<>> THEN c ELSE escapeD9Row5(rmValue)

escapeD9(d, modValue, regValue, rmValue) ==
    IF modValue # 3
    THEN CASE regValue \in {0, 2, 3} ->
                memoryChain(<<"FLD", "", "FST", "FSTP">>[regValue + 1], "Single")
           [] regValue = 4 -> memoryChain("FLDENV", environmentSize(d))
           [] regValue = 5 -> memoryChain("FLDCW", "ByteByte")
           [] regValue = 6 -> memoryChain("FSTENV", environmentSize(d))
           [] regValue = 7 -> memoryChain("FSTCW", "ByteByte")
           [] OTHER -> <<>>
    ELSE CASE regValue = 0 -> st0StiChain("FLD", rmValue)
           [] regValue = 1 -> st0StiChain("FXCH", rmValue)
           [] regValue = 2 -> IF rmValue = 0 THEN plainChain("FNOP")
                              ELSE escapeD9Row4(rmValue)
           [] regValue = 4 -> escapeD9Row4(rmValue)
           [] regValue = 5 -> escapeD9Row5(rmValue)
           [] regValue = 6 -> escapeD9Row6(rmValue)
           [] regValue = 7 ->
                plainChain(<<"FPREM", "FYL2XP1", "FSQRT", "FSINCOS", "FRNDINT",
                             "FSCALE", "FSIN", "FCOS">>[rmValue + 1])
           [] OTHER -> <<>>

escapeDA(modValue, regValue, rmValue) ==
    IF modValue # 3 THEN memoryChain(IntegerNames[regValue + 1], "Int32")
    ELSE CASE regValue \in 0..3 ->
                st0StiChain(<<"FCMOVB", "FCMOVE", "FCMOVBE", "FCMOVU">>
                                [regValue + 1], rmValue)
           [] regValue = 5 /\ rmValue = 1 -> plainChain("FUCOMPP")
           [] OTHER -> <<>>

escapeDB(modValue, regValue, rmValue) ==
    IF modValue # 3
    THEN CASE regValue \in 0..3 ->
                memoryChain(<<"FILD", "FISTTP", "FIST", "FISTP">>[regValue + 1],
                            "Int32")
           [] regValue = 5 -> memoryChain("FLD", "ExtendedReal")
           [] regValue = 7 -> memoryChain("FSTP", "ExtendedReal")
           [] OTHER -> <<>>
    ELSE CASE regValue \in 0..3 ->
                st0StiChain(<<"FCMOVNB", "FCMOVNE", "FCMOVNBE", "FCMOVNU">>
                                [regValue + 1], rmValue)
           [] regValue = 4 /\ rmValue = 2 -> plainChain("FCLEX")
           [] regValue = 4 /\ rmValue = 3 -> plainChain("FINIT")
           [] regValue = 5 \/ (regValue = 4 /\ rmValue \notin {2, 3}) ->
                st0StiChain("FUCOMI", rmValue)
           [] regValue = 6 -> st0StiChain("FCOMI", rmValue)
           [] OTHER -> <<>>

escapeDC(modValue, regValue, rmValue) ==
    IF modValue # 3 THEN memoryChain(ArithmeticNames[regValue + 1], "Double")
    ELSE CASE regValue \in {0, 1, 4, 5, 6, 7} ->
                stiSt0Chain(<<"FADD", "FMUL", "", "", "FSUBR", "FSUB", "FDIVR",
                              "FDIV">>[regValue + 1], rmValue)
           [] OTHER -> <<>>

escapeDD(d, modValue, regValue, rmValue) ==
    IF modValue # 3
    THEN CASE regValue \in 0..3 ->
                memoryChain(<<"FLD", "FISTTP", "FST", "FSTP">>[regValue + 1],
                            "Double")
           [] regValue = 4 -> memoryChain("FRSTOR", stateSize(d))
           [] regValue = 6 -> memoryChain("FSAVE", stateSize(d))
           [] regValue = 7 -> memoryChain("FSTSW", "ByteByte")
           [] OTHER -> <<>>
    ELSE CASE regValue = 0 -> stiChain("FFREE", rmValue)
           [] regValue = 2 -> stiChain("FST", rmValue)
           [] regValue = 3 -> stiChain("FSTP", rmValue)
           [] regValue = 4 -> stiSt0Chain("FUCOM", rmValue)
           [] regValue = 5 -> stiChain("FUCOMP", rmValue)
           [] OTHER -> <<>>

escapeDE(modValue, regValue, rmValue) ==
    IF modValue # 3 THEN memoryChain(IntegerNames[regValue + 1], "Int16")
    ELSE CASE regValue \in {0, 1} ->
                stiSt0Chain(<<"FADDP", "FMULP">>[regValue + 1], rmValue)
           [] regValue = 3 /\ rmValue = 1 -> plainChain("FCOMPP")
           [] regValue \in 4..7 \/ (regValue = 3 /\ rmValue # 1) ->
                stiSt0Chain(<<"FSUBRP", "FSUBRP", "FSUBP", "FDIVRP", "FDIVP">>
                                [regValue - 2], rmValue)
           [] OTHER -> <<>>

escapeDF(modValue, regValue, rmValue) ==
    IF modValue # 3
    THEN memoryChain(<<"FILD", "FISTTP", "FIST", "FISTP", "FBLD", "FILD",
                       "FBSTP", "FISTP">>[regValue + 1],
                     <<"Int16", "Int16", "Int16", "Int16", "PackedBCD", "Int64",
                       "PackedBCD", "Int64">>[regValue + 1])
    ELSE CASE regValue = 4 /\ rmValue = 0 ->
                <<opCodeCall("FSTSW"), registerOperandCall("AX"), doneCall>>
           [] regValue = 5 \/ (regValue = 4 /\ rmValue # 0) ->
                st0StiChain("FUCOMIP", rmValue)
           [] regValue = 6 -> st0StiChain("FCOMIP", rmValue)
           [] OTHER -> <<>>

(* What the case of one escape byte returns.                               *)
escapeCase(d, opcode, modValue, regValue, rmValue) ==
    CASE opcode = \hD8 -> escapeD8(modValue, regValue, rmValue)
      [] opcode = \hD9 -> escapeD9(d, modValue, regValue, rmValue)
      [] opcode = \hDA -> escapeDA(modValue, regValue, rmValue)
      [] opcode = \hDB -> escapeDB(modValue, regValue, rmValue)
      [] opcode = \hDC -> escapeDC(modValue, regValue, rmValue)
      [] opcode = \hDD -> escapeDD(d, modValue, regValue, rmValue)
      [] opcode = \hDE -> escapeDE(modValue, regValue, rmValue)
      [] opcode = \hDF -> escapeDF(modValue, regValue, rmValue)
      [] OTHER -> <<>>

RECURSIVE escapeChain(_, _, _)
(* The switch entered at case `opcode`, falling from case to case.         *)
escapeChain(d, opcode, modrm) ==
    LET c == escapeCase(d, opcode, mod(modrm), reg(modrm), rm(modrm))
    IN  IF c # <<>> \/ opcode \notin \hD8..\hDE THEN c
        ELSE escapeChain(d, opcode + 1, modrm)

escape(d, buf, opcode) ==
    LET e == ensureModrm(d, buf, <<>>)
        chain == escapeChain(e.d, opcode, e.val)
    IN  IF e.st # "ok" THEN Need(e.d, e.k, e.msg)
        ELSE IF chain = <<>> THEN Throw(e.d, e.k, "internal error")
        ELSE Ok(e.d, e.k, chain)

escapeCall(opcode) == Call("escape", "", opcode, "Int8", {})

-----------------------------------------------------------------------------
(* The two-byte map and the one-byte map: the chain of calls that the case *)
(* of an opcode byte makes, or <<>> for a byte with no case (or a case     *)
(* that only breaks), after which the method throws.                       *)

(* opCode(code).<first>.<second>.done()                                    *)
binaryChain(code, first, second) == <<opCodeCall(code), first, second, doneCall>>

(* opCode(code).<first>.<second>.<third>.done()                            *)
ternaryChain(code, first, second, third) ==
    <<opCodeCall(code), first, second, third, doneCall>>

(* opCode(code).<operand>.done()                                           *)
oneChain(code, operand) == <<opCodeCall(code), operand, doneCall>>

(* Ev, Gv of the current operand size.                                     *)
EvGv(d, code) ==
    binaryChain(code, modrmOperandCall(d.operandSize, {}),
                regOperandCall(d.operandSize, {}))

(* Gv, E of the given size.                                                *)
GvE(d, code, operandSize) ==
    binaryChain(code, regOperandCall(d.operandSize, {}),
                modrmOperandCall(operandSize, {}))

secondByteChain(d, second) ==
    CASE second = \h00 ->
           <<groupOpCodeCall("6"), modrmOperandCall("Int16", {}), doneCall>>
      [] second = \h01 -> <<groupCall("7", 0)>>
      [] second = \h02 -> GvE(d, "LAR", "Int16")
      [] second = \h03 -> GvE(d, "LSL", "Int16")
      [] second = \h06 -> plainChain("CLTS")
      [] second = \h20 ->
           binaryChain("MOV", modrmOperandCall("Int32", {"MustBeRegister"}),
                       regOperandCall("Int32", {"ControlRegister"}))
      [] second = \h21 ->
           binaryChain("MOV", modrmOperandCall("Int32", {"MustBeRegister"}),
                       regOperandCall("Int32", {"DebugRegister"}))
      [] second = \h22 ->
           binaryChain("MOV", regOperandCall("Int32", {"ControlRegister"}),
                       modrmOperandCall("Int32", {"MustBeRegister"}))
      [] second = \h23 ->
           binaryChain("MOV", regOperandCall("Int32", {"DebugRegister"}),
                       modrmOperandCall("Int32", {"MustBeRegister"}))
      [] second \in \h80..\h8F ->
           <<jumpOpCodeCall(second - \h80), ripOperandCall(d.operandSize),
             doneCall>>
      [] second \in \h90..\h97 ->
           <<setOpCodeCall(second - \h90), modrmOperandCall("Int8", {}),
             doneCall>>
      [] second \in \h98..\h9F -> <<setOpCodeCall(second - \h90), doneCall>>
      [] second = \hA0 -> oneChain("PUSH", segmentOperandCall("FS"))
      [] second = \hA1 -> oneChain("POP", segmentOperandCall("FS"))
      [] second = \hA3 -> EvGv(d, "BT")
      [] second = \hA4 ->
           ternaryChain("SHLD", modrmOperandCall(d.operandSize, {}),
                        regOperandCall(d.operandSize, {}),
                        immediateOperandCall("Int8"))
      [] second = \hA5 ->
           ternaryChain("SHLD", modrmOperandCall(d.operandSize, {}),
                        regOperandCall(d.operandSize, {}),
                        registerOperandCall("CL"))
      [] second = \hA8 -> oneChain("PUSH", segmentOperandCall("GS"))
      [] second = \hA9 -> oneChain("POP", segmentOperandCall("GS"))
      [] second = \hAB -> EvGv(d, "BTS")
      [] second = \hAC ->
           ternaryChain("SHRD", modrmOperandCall(d.operandSize, {}),
                        regOperandCall(d.operandSize, {}),
                        immediateOperandCall("Int8"))
      [] second = \hAD ->
           ternaryChain("SHRD", modrmOperandCall(d.operandSize, {}),
                        regOperandCall(d.operandSize, {}),
                        registerOperandCall("CL"))
      [] second = \hAF -> GvE(d, "IMUL", d.operandSize)
      [] second = \hB2 -> GvE(d, "LSS", farPointerSize(d))
      [] second = \hB3 -> EvGv(d, "BTR")
      [] second = \hB4 -> GvE(d, "LFS", farPointerSize(d))
      [] second = \hB5 -> GvE(d, "LGS", farPointerSize(d))
      [] second = \hB6 -> GvE(d, "MOVZX", "Int8")
      [] second = \hB7 -> GvE(d, "MOVZX", "Int16")
      [] second = \hBA ->
           <<groupOpCodeCall("8"), modrmOperandCall(d.operandSize, {}),
             immediateOperandCall("Int8"), doneCall>>
      [] second = \hBB -> EvGv(d, "BTC")
      [] second = \hBC -> GvE(d, "BSF", d.operandSize)
      [] second = \hBD -> GvE(d, "BSR", d.operandSize)
      [] second = \hBE -> GvE(d, "MOVSX", "Int8")
      [] second = \hBF -> GvE(d, "BSF", "Int16")
      [] OTHER -> <<>>

secondByte(d, buf) ==
    LET chain == secondByteChain(d, buf[1])
    IN  IF buf = <<>> THEN Need(d, <<>>, "opcode")
        ELSE IF chain = <<>> THEN Throw(d, <<"opcode">>, "invalid instruction")
        ELSE Ok(d, <<"opcode">>, chain)

secondByteCall == Call("secondByte", "", 0, "Int8", {})

(* The arithmetic block 00-3F: mnemonic by row, and in each row six forms, *)
(* the push or pop of a segment register, a prefix or a one-byte opcode.   *)
BlockOpCodes == <<"ADD", "OR", "ADC", "SBB", "AND", "SUB", "XOR", "CMP">>

arithmeticBlockChain(first) ==
    LET row == first \div 8
        column == first % 8
    IN  CASE column \in 0..5 ->
               <<opCodeCall(BlockOpCodes[row + 1]),
                 arithmeticOperandsCall(first - 8 * row), doneCall>>
          [] first = \h06 -> oneChain("PUSH", segmentOperandCall("ES"))
          [] first = \h07 -> oneChain("POP", segmentOperandCall("ES"))
          [] first = \h0E -> oneChain("PUSH", segmentOperandCall("CS"))
          [] first = \h0F -> <<secondByteCall>>
          [] first = \h16 -> oneChain("PUSH", segmentOperandCall("SS"))
          [] first = \h17 -> oneChain("POP", segmentOperandCall("SS"))
          [] first = \h1E -> oneChain("PUSH", segmentOperandCall("DS"))
          [] first = \h1F -> oneChain("POP", segmentOperandCall("DS"))
          [] first = \h26 -> prefixCall("segmentOverride", "ES")
          [] first = \h27 -> plainChain("DAA")
          [] first = \h2E -> prefixCall("segmentOverride", "CS")
          [] first = \h2F -> plainChain("DAS")
          [] first = \h36 -> prefixCall("segmentOverride", "SS")
          [] first = \h37 -> plainChain("AAA")
          [] first = \h3E -> prefixCall("segmentOverride", "DS")
          [] first = \h3F -> plainChain("AAS")


(* eAX or AL, by the low bit of the opcode byte.                           *)
accumulatorCall(d, first) ==
    encodedRegisterOperandCall(0, decodeOperandSize(d, first))

(* Opcode bytes 40-7F.                                                     *)
firstByteChain40(d, first) ==
    CASE first \in \h40..\h47 ->
           oneChain("INC", encodedRegisterOperandCall(first - \h40, d.operandSize))
      [] first \in \h48..\h4F ->
           oneChain("DEC", encodedRegisterOperandCall(first - \h48, d.operandSize))
      [] first \in \h50..\h57 ->
           oneChain("PUSH", encodedRegisterOperandCall(first - \h50, d.operandSize))
      [] first \in \h58..\h5F ->
           oneChain("POP", encodedRegisterOperandCall(first - \h58, d.operandSize))
      [] first = \h60 -> plainChain("PUSHA")
      [] first = \h61 -> plainChain("POPA")
      [] first = \h62 ->
           GvE(d, "BOUND", IF d.operandSize = "Int16" THEN "Int16Int16"
                           ELSE "Int32Int32")
      [] first = \h63 ->
           binaryChain("ARPL", modrmOperandCall("Int16", {}),
                       regOperandCall("Int16", {}))
      [] first = \h64 -> prefixCall("segmentOverride", "FS")
      [] first = \h65 -> prefixCall("segmentOverride", "GS")
      [] first = \h66 -> prefixCall("operandSizeOverride", "")
      [] first = \h67 -> prefixCall("addressModeOverride", "")
      [] first = \h68 -> oneChain("PUSH", immediateOperandCall(d.operandSize))
      [] first = \h69 ->
           ternaryChain("IMUL", regOperandCall(d.operandSize, {}),
                        modrmOperandCall(d.operandSize, {}),
                        immediateOperandCall(d.operandSize))
      [] first = \h6A -> oneChain("PUSH", immediateOperandCall("Int8"))
      [] first = \h6B ->
           ternaryChain("IMUL", regOperandCall(d.operandSize, {}),
                        modrmOperandCall(d.operandSize, {}),
                        immediateOperandCall("Int8"))
      [] first \in {\h6C, \h6D} ->
           binaryChain("INS", esdiOperandCall(decodeOperandSize(d, first)),
                       registerOperandCall("DX"))
      [] first \in {\h6E, \h6F} ->
           binaryChain("OUTS", registerOperandCall("DX"),
                       dssiOperandCall(decodeOperandSize(d, first)))
      [] first \in \h70..\h7F ->
           <<jumpOpCodeCall(first - \h70), ripOperandCall("Int8"), doneCall>>

(* Opcode bytes 80-BF.                                                     *)
firstByteChain80(d, first) ==
    CASE first \in {\h80, \h81} ->
           <<groupOpCodeCall("1"),
             modrmOperandCall(decodeOperandSize(d, first), {}),
             immediateOperandCall(decodeOperandSize(d, first)), doneCall>>
      [] first = \h82 -> <<>>
      [] first = \h83 ->
           <<groupOpCodeCall("1"), modrmOperandCall(d.operandSize, {}),
             immediateOperandCall("Int8"), doneCall>>
      [] first \in {\h84, \h85} ->
           <<opCodeCall("TEST"), arithmeticOperandsCall(first - \h84), doneCall>>
      [] first \in {\h86, \h87} ->
           <<opCodeCall("XCHG"), arithmeticOperandsCall(first - \h86), doneCall>>
      [] first \in \h88..\h8B ->
           <<opCodeCall("MOV"), arithmeticOperandsCall(first - \h88), doneCall>>
      [] first = \h8C ->
           binaryChain("MOV", modrmOperandCall(d.operandSize, {}),
                       regOperandCall("Int16", {"Segment"}))
      [] first = \h8D ->
           binaryChain("LEA", regOperandCall(d.operandSize, {}),
                       modrmOperandCall(d.operandSize, {"DontDereference"}))
      [] first = \h8E ->
           binaryChain("MOV", regOperandCall("Int16", {"Segment"}),
                       modrmOperandCall("Int16", {}))
      [] first = \h8F -> unaryChain("POP", d.operandSize)
      [] first = \h90 -> plainChain("NOP")
      [] first \in \h91..\h97 ->
           binaryChain("XCHG", encodedRegisterOperandCall(0, d.operandSize),
                       encodedRegisterOperandCall(first - \h90, d.operandSize))
      [] first = \h98 -> plainChain("CBW")
      [] first = \h99 -> plainChain("CWD")
      [] first = \h9A -> oneChain("CALL", callOperandCall({"Segment"}))
      [] first = \h9B -> plainChain("WAIT")
      [] first = \h9C -> plainChain("PUSHF")
      [] first = \h9D -> plainChain("POPF")
      [] first = \h9E -> plainChain("SAHF")
      [] first = \h9F -> plainChain("LAHF")
      [] first \in {\hA0, \hA1} ->
           binaryChain("MOV", accumulatorCall(d, first),
                       offsetOperandCall(decodeOperandSize(d, first)))
      [] first \in {\hA2, \hA3} ->
           binaryChain("MOV", offsetOperandCall(decodeOperandSize(d, first)),
                       accumulatorCall(d, first))
      [] first \in {\hA4, \hA5} ->
           binaryChain("MOVS", dssiOperandCall(decodeOperandSize(d, first)),
                       esdiOperandCall(decodeOperandSize(d, first)))
      [] first \in {\hA6, \hA7} ->
           binaryChain("CMPS", dssiOperandCall(decodeOperandSize(d, first)),
                       esdiOperandCall(decodeOperandSize(d, first)))
      [] first \in {\hA8, \hA9} ->
           binaryChain("TEST", accumulatorCall(d, first),
                       immediateOperandCall(decodeOperandSize(d, first)))
      [] first \in {\hAA, \hAB} ->
           binaryChain("STOS", esdiOperandCall(decodeOperandSize(d, first)),
                       accumulatorCall(d, first))
      [] first \in {\hAC, \hAD} ->
           binaryChain("LODS", accumulatorCall(d, first),
                       dssiOperandCall(decodeOperandSize(d, first)))
      [] first \in {\hAE, \hAF} ->
           binaryChain("SCAS", accumulatorCall(d, first),
                       dssiOperandCall(decodeOperandSize(d, first)))
      [] first \in \hB0..\hB7 ->
           binaryChain("MOV", encodedRegisterOperandCall(first - \hB0, "Int8"),
                       immediateOperandCall("Int8"))
      [] first \in \hB8..\hBF ->
           binaryChain("MOV",
                       encodedRegisterOperandCall(first - \hB8, d.operandSize),
                       immediateOperandCall(d.operandSize))

(* Opcode bytes C0-FF.                                                     *)
firstByteChainC0(d, first) ==
    CASE first \in {\hC0, \hC1} ->
           <<groupOpCodeCall("2"),
             modrmOperandCall(decodeOperandSize(d, first), {}),
             immediateOperandCall("Int8"), doneCall>>
      [] first = \hC2 ->
           <<nearCall>> \o oneChain("RET", immediateOperandCall("Int16"))
      [] first = \hC3 -> <<nearCall>> \o plainChain("RET")
      [] first = \hC4 -> GvE(d, "LES", farPointerSize(d))
      [] first = \hC5 -> GvE(d, "LDS", farPointerSize(d))
      [] first \in {\hC6, \hC7} ->
           binaryChain("MOV", modrmOperandCall(decodeOperandSize(d, first), {}),
                       immediateOperandCall(decodeOperandSize(d, first)))
      [] first = \hC8 ->
           binaryChain("ENTER", immediateOperandCall("Int16"),
                       immediateOperandCall("Int8"))
      [] first = \hC9 -> plainChain("LEAVE")
      [] first = \hCA -> oneChain("RET", immediateOperandCall("Int16"))
      [] first = \hCB -> plainChain("RET")
      [] first = \hCC -> oneChain("INT", literalOperandCall(3))
      [] first = \hCD -> oneChain("INT", immediateOperandCall("Int8"))
      [] first = \hCE -> plainChain("INTO")
      [] first = \hCF -> plainChain("IRET")
      [] first \in {\hD0, \hD1} ->
           <<groupOpCodeCall("2"),
             modrmOperandCall(decodeOperandSize(d, first), {}),
             literalOperandCall(1), doneCall>>
      [] first \in {\hD2, \hD3} ->
           <<groupOpCodeCall("2"),
             modrmOperandCall(decodeOperandSize(d, first), {}),
             registerOperandCall("CL"), doneCall>>
      [] first = \hD4 -> plainChain("AAM")
      [] first = \hD5 -> plainChain("AAD")
      [] first = \hD6 -> <<>>
      [] first = \hD7 -> plainChain("XLAT")
      [] first \in \hD8..\hDF -> <<escapeCall(first)>>
      [] first = \hE0 -> oneChain("LOOPNE", ripOperandCall("Int8"))
      [] first = \hE1 -> oneChain("LOOPE", ripOperandCall("Int8"))
      [] first = \hE2 -> oneChain("LOOP", ripOperandCall("Int8"))
      [] first = \hE3 -> oneChain("JCXZ", ripOperandCall("Int8"))
      [] first \in {\hE4, \hE5} ->
           binaryChain("IN", accumulatorCall(d, first),
                       immediateOperandCall("Int8"))
      [] first \in {\hE6, \hE7} ->
           binaryChain("OUT", immediateOperandCall("Int8"),
                       accumulatorCall(d, first))
      [] first = \hE8 -> oneChain("CALL", callOperandCall({}))
      [] first = \hE9 -> oneChain("JMP", ripOperandCall(d.operandSize))
      [] first = \hEA -> oneChain("JMP", callOperandCall({"Segment"}))
      [] first = \hEB -> oneChain("JMP", ripOperandCall("Int8"))
      [] first \in {\hEC, \hED} ->
           binaryChain("IN", accumulatorCall(d, first),
                       registerOperandCall("DX"))
      [] first \in {\hEE, \hEF} ->
           binaryChain("OUT", registerOperandCall("DX"),
                       accumulatorCall(d, first))
      [] first = \hF0 -> prefixCall("locked", "")
      [] first = \hF1 -> <<>>
      [] first = \hF2 -> prefixCall("repeatType", "NotEqual")
      [] first = \hF3 -> prefixCall("repeatType", "Equal")
      [] first = \hF4 -> plainChain("HLT")
      [] first = \hF5 -> plainChain("CMC")
      [] first \in {\hF6, \hF7} -> <<groupCall("3", first)>>
      [] first = \hF8 -> plainChain("CLC")
      [] first = \hF9 -> plainChain("STC")
      [] first = \hFA -> plainChain("CLI")
      [] first = \hFB -> plainChain("STI")
      [] first = \hFC -> plainChain("CLD")
      [] first = \hFD -> plainChain("STD")
      [] first = \hFE ->
           <<groupOpCodeCall("4"), modrmOperandCall("Int8", {}), doneCall>>
      [] first = \hFF -> <<groupCall("5", 0)>>

firstByteChain(d, first) ==
    CASE first \in \h00..\h3F -> arithmeticBlockChain(first)
      [] first \in \h40..\h7F -> firstByteChain40(d, first)
      [] first \in \h80..\hBF -> firstByteChain80(d, first)
      [] first \in \hC0..\hFF -> firstByteChainC0(d, first)
      [] OTHER -> <<>>

(* A variant of firstByte() that reads on past a byte with no case.        *)
firstByteSkipping(d, buf) ==
    IF buf = <<>> THEN Need(d, <<>>, "opcode")
    ELSE Ok(d, <<"opcode">>,
            IF firstByteChain(d, buf[1]) = <<>> THEN <<firstByteCall>>
            ELSE firstByteChain(d, buf[1]))

firstByte(d, buf) ==
    LET chain == firstByteChain(d, buf[1])
    IN  IF buf = <<>> THEN Need(d, <<>>, "opcode")
        ELSE IF chain = <<>> THEN Throw(d, <<"opcode">>, "invalid instruction")
        ELSE Ok(d, <<"opcode">>, chain)


-----------------------------------------------------------------------------
(* One call of the chain, run on the decoder d.  buf holds the bytes the   *)
(* reader produces from its current position on, address is the reader's   *)
(* address at that position.                                               *)

Exec(d, call, buf, address) ==
    CASE call.op = "firstByte" -> firstByte(d, buf)
      [] call.op = "secondByte" -> secondByte(d, buf)
      [] call.op = "opCode" -> opCode(d, <<>>, call.code)
      [] call.op = "done" -> done(d)
      [] call.op = "near" -> near(d)
      [] call.op = "segmentOverride" -> segmentOverride(d, call.code)
      [] call.op = "addressModeOverride" -> addressModeOverride(d)
      [] call.op = "operandSizeOverride" -> operandSizeOverride(d)
      [] call.op = "repeatType" -> repeatType(d, call.code)
      [] call.op = "locked" -> locked(d)
      [] call.op = "modrmOperand" -> modrmOperand(d, buf, call.size, call.flags)
      [] call.op = "regOperand" -> regOperand(d, buf, call.size, call.flags)
      [] call.op = "segmentOperand" ->
           segmentOperand(d, <<>>, SegmentValue(call.code))
      [] call.op = "registerOperand" ->
           registerOperand(d, <<>>, RegisterValue(call.code))
      [] call.op = "encodedRegisterOperand" ->
           encodedRegisterOperand(d, <<>>, call.n, call.size)
      [] call.op = "immediateOperand" -> immediateOperand(d, buf, call.size)
      [] call.op = "literalOperand" -> literalOperand(d, call.n)
      [] call.op = "ripOperand" -> ripOperand(d, buf, address, call.size)
      [] call.op = "offsetOperand" -> offsetOperand(d, buf, call.size)
      [] call.op = "callOperand" -> callOperand(d, buf, call.flags)
      [] call.op = "esdiOperand" -> esdiOperand(d, call.size)
      [] call.op = "dssiOperand" -> dssiOperand(d, call.size)
      [] call.op = "floatingPointOperand" -> floatingPointOperand(d, call.n)
      [] call.op = "arithmeticOperands" -> arithmeticOperands(d, call.n)
      [] call.op = "groupOpCode" -> groupOpCode(d, buf, call.code)
      [] call.op = "jumpOpCode" -> jumpOpCode(d, call.n)
      [] call.op = "setOpCode" -> setOpCode(d, call.n)
      [] call.op = "group" -> groupChain(d, buf, call.code, call.n)
      [] call.op = "escape" -> escape(d, buf, call.n)

(* No Disassembler: the caller's variable before `new`, or after a `new`   *)
(* that threw.                                                             *)
NoInstance == [reader |-> FALSE]

(* new Disassembler(segmentAddressMode).  The constructor assigns only     *)
(* _segmentAddressMode; the other fields are undefined until the first     *)
(* reset and hold here what reset gives them (undefined is falsy, and      *)
(* `undefined != null` is false, so no reader is attached).                *)
Constructed(segmentAddressMode) ==
    [segmentAddressMode |-> segmentAddressMode, reader |-> FALSE,
     address |-> 0, opCode |-> "Invalid",
     operandSize |-> segmentAddressMode, addressMode |-> segmentAddressMode,
     addressModeOverridden |-> FALSE, operandSizeOverridden |-> FALSE,
     segmentOverride |-> "None", modrm |-> 0, readModrm |-> FALSE,
     isLocked |-> FALSE, repeatType |-> "None", isNear |-> FALSE,
     operandCount |-> 0, operand1 |-> NullOperand, operand2 |-> NullOperand,
     operand3 |-> NullOperand]

(* A variant of the constructor without the test of its argument.          *)
constructorOfAny(segmentAddressMode) ==
    [st |-> "ok", d |-> Constructed(segmentAddressMode), msg |-> ""]

(* constructor(segmentAddressMode): an Error for a size other than Int16   *)
(* and Int32, and else the new instance.                                   *)
constructor(segmentAddressMode) ==
    IF segmentAddressMode # "Int16" /\ segmentAddressMode # "Int32"
    THEN [st |-> "error", d |-> NoInstance, msg |-> "invalid default size"]
    ELSE [st |-> "ok", d |-> Constructed(segmentAddressMode), msg |-> ""]

(* A variant of reset() that leaves the operand size and its flag as the   *)
(* call before left them.                                                  *)
resetKeeping(d, address) ==
    IF d.reader THEN Throw(d, <<>>, "internal error")
    ELSE Ok([d EXCEPT !.address = address, !.opCode = "Invalid",
                      !.reader = TRUE,
                      !.addressMode = d.segmentAddressMode,
                      !.addressModeOverridden = FALSE,
                      !.segmentOverride = "None", !.modrm = 0,
                      !.readModrm = FALSE, !.isLocked = FALSE,
                      !.repeatType = "None", !.isNear = FALSE,
                      !.operandCount = 0, !.operand1 = NullOperand,
                      !.operand2 = NullOperand, !.operand3 = NullOperand],
            <<>>, <<firstByteCall>>)

(* A variant of reset() without the assignment of _address.                *)
resetKeepingAddress(d, address) ==
    IF d.reader THEN Throw(d, <<>>, "internal error")
    ELSE Ok([d EXCEPT !.opCode = "Invalid",
                      !.reader = TRUE,
                      !.operandSize = d.segmentAddressMode,
                      !.addressMode = d.segmentAddressMode,
                      !.addressModeOverridden = FALSE,
                      !.operandSizeOverridden = FALSE,
                      !.segmentOverride = "None", !.modrm = 0,
                      !.readModrm = FALSE, !.isLocked = FALSE,
                      !.repeatType = "None", !.isNear = FALSE,
                      !.operandCount = 0, !.operand1 = NullOperand,
                      !.operand2 = NullOperand, !.operand3 = NullOperand],
            <<>>, <<firstByteCall>>)

(* reset(reader): throws while a reader is attached, else attaches the     *)
(* reader and clears the decode context.  address is reader.address().     *)
reset(d, address) ==
    IF d.reader THEN Throw(d, <<>>, "internal error")
    ELSE Ok([d EXCEPT !.address = address, !.opCode = "Invalid",
                      !.reader = TRUE,
                      !.operandSize = d.segmentAddressMode,
                      !.addressMode = d.segmentAddressMode,
                      !.addressModeOverridden = FALSE,
                      !.operandSizeOverridden = FALSE,
                      !.segmentOverride = "None", !.modrm = 0,
                      !.readModrm = FALSE, !.isLocked = FALSE,
                      !.repeatType = "None", !.isNear = FALSE,
                      !.operandCount = 0, !.operand1 = NullOperand,
                      !.operand2 = NullOperand, !.operand3 = NullOperand],
            <<>>, <<firstByteCall>>)


-----------------------------------------------------------------------------
(* disassemble(reader) as a function of the bytes the reader holds: the    *)
(* chain is run call by call until it throws, returns, or asks the reader  *)
(* for a byte past the end of the stream, at which the reader raises.      *)

(* What a disassemble call gave its caller: kind is "none" while no call   *)
(* has ended, "instruction" (ret holds it), "error" (a LayoutError, msg    *)
(* its message) or "readerError" (the reader's own exception).             *)
Outcome(kind, msg, ret) == [kind |-> kind, msg |-> msg, ret |-> ret]

NoOutcome == Outcome("none", "", <<>>)

RECURSIVE Run(_, _, _, _, _)

(* The rest of a call behind the first of its calls, whose outcome is r.   *)
RunFrom(r, chain, used, stream, address) ==
    CASE r.st = "need" ->
           [out |-> Outcome("readerError", "", <<>>), d |-> r.d,
            used |-> used + Len(r.k), need |-> r.msg, op |-> Head(chain).op]
      [] r.st = "error" ->
           [out |-> Outcome("error", r.msg, <<>>), d |-> r.d,
            used |-> used + Len(r.k), need |-> "", op |-> ""]
      [] r.st = "ok" /\ r.ret # <<>> ->
           [out |-> Outcome("instruction", "", r.ret), d |-> r.d,
            used |-> used + Len(r.k), need |-> "", op |-> ""]
      [] OTHER ->
           Run(r.d, r.push \o Tail(chain), used + Len(r.k), stream, address)

(* The rest of a call: d the decoder, chain the calls still to run, used   *)
(* the number of bytes of stream consumed so far.  Besides the outcome:    *)
(* d at the end, and for a reader error the call that asked (op) and what  *)
(* it asked the byte for (need).                                           *)
Run(d, chain, used, stream, address) ==
    RunFrom(Exec(d, Head(chain), SubSeq(stream, used + 1, Len(stream)),
                 address + used),
            chain, used, stream, address)

(* new Disassembler(segmentAddressMode).disassemble(reader), the reader at *)
(* `address` holding `stream`.                                             *)
Decode(segmentAddressMode, stream, address) ==
    Run(reset(Constructed(segmentAddressMode), address).d, <<firstByteCall>>,
        0, stream, address)


-----------------------------------------------------------------------------
(* The inputs.  A reader is its start address and its bytes; the bytes are *)
(* drawn from the sets below, which byte by what it will be read as.       *)

(* How many disassemble calls are made on the one instance.                *)
MaxCalls == 3

(* A stream this short whose decode has ended gets a byte after its end.   *)
MaxTrailed == 1

SegmentAddressModes == {"Int16", "Int32"}

StartAddresses == {\h100}

(* The addresses of the readers of the calls made one after another.       *)
CallAddresses == StartAddresses \cup {\h2000}

PrefixBytes == {\h26, \h2E, \h36, \h3E, \h64, \h65, \h66, \h67, \hF0, \hF2, \hF3}

LockRepeatBytes == {\hF0, \hF2, \hF3}

AllBytes == 0..255

(* Opcode bytes after one prefix other than LOCK and the repeats.          *)
SampleOpcodes ==
    {\h01, \h03, \h0F, \h8B, \h90, \hA1, \hA4, \hC7, \hD6, \hE8, \hEA}

(* Opcode bytes after two prefixes or more.                                *)
FewOpcodes == {\h66, \hF0, \h8B, \h90}

(* Second opcode bytes behind a prefix.                                    *)
SampleSecondBytes == {\h20, \h84, \hB6}

ModrmBytes ==
    {\h00, \h04, \h05, \h06, \h08, \h28, \h30, \h41, \h44, \h9D, \hC3,
     \hD0, \hE1, \hF8}

(* Every reg, with a memory and a register form.                           *)
GroupModrmBytes == {8 * r : r \in 0..7} \cup {192 + 8 * r : r \in 0..7}

EscapeModrmBytes == {8 * r : r \in 0..7} \cup 192..255

PrefixedModrmBytes == {8 * r : r \in 0..7} \cup {\hC3, \hD9}

SibBytes == {\h00, \h05, \h19, \h25, \h45, \h88, \h8D, \hCD, \hE5}

ImmediateBytes == {\h12, \hFE}

TrailBytes == {\h90}

(* The stream behind one leading LOCK or repeat prefix.                    *)
Unprefixed(stream) ==
    IF stream # <<>> /\ stream[1] \in LockRepeatBytes THEN Tail(stream)
    ELSE stream

(* The bytes that may follow `stream`, for a decode that stopped at the    *)
(* end of it asking call `op` for a byte read as `need`.                   *)
NextBytes(stream, need, op) ==
    LET behind == stream # <<>> /\ stream[1] \in PrefixBytes
        plain == Unprefixed(stream)
    IN  CASE need = "opcode" /\ op = "firstByte" ->
               IF plain = <<>> THEN AllBytes
               ELSE IF Len(stream) = 1 THEN PrefixBytes \cup SampleOpcodes
               ELSE FewOpcodes
          [] need = "opcode" /\ op = "secondByte" ->
               IF Len(plain) = 1 THEN AllBytes ELSE SampleSecondBytes
          [] need = "modrm" ->
               IF behind THEN PrefixedModrmBytes
               ELSE IF op \in {"groupOpCode", "group"} THEN GroupModrmBytes
               ELSE IF op = "escape" THEN EscapeModrmBytes
               ELSE ModrmBytes
          [] need = "sib" -> IF behind THEN {\h45} ELSE SibBytes
          [] need = "imm" -> IF behind THEN {\h12} ELSE ImmediateBytes
          [] OTHER -> {}

(* The bytes the reader may hold after `stream`: what the decode of the    *)
(* stream (whole), or of the stream behind its LOCK or repeat prefix       *)
(* (plain), asks for at its end; and one byte more after a short stream    *)
(* whose decode has ended.                                                 *)
ContinuationsOf(stream, whole, plain) ==
    IF whole.need # "" THEN NextBytes(stream, whole.need, whole.op)
    ELSE IF plain.need # "" THEN NextBytes(stream, plain.need, plain.op)
    ELSE IF Len(stream) <= MaxTrailed THEN TrailBytes
    ELSE {}

Continuations(segmentAddressMode, stream, address) ==
    ContinuationsOf(stream, Decode(segmentAddressMode, stream, address),
                    Decode(segmentAddressMode, Unprefixed(stream), address))

(* The readers' streams of the calls made one after another on an instance *)
Streams ==
    {<<>>, <<\h90>>, <<\h66, \h90>>, <<\h01, \h00>>, <<\h8B>>,
     <<\h67, \h8B, \h46, \h12>>, <<\h26, \hA1, \h34, \h12>>, <<\hC3>>,
     <<\hFF, \h10>>, <<\hD6>>, <<\h66, \h66, \h90>>, <<\hF0, \h01, \h00>>,
     <<\hF3, \hA4>>, <<\h0F, \hB6, \hC1>>, <<\h03, \h06, \h34, \h12>>,
     <<\hB8, \h78, \h56, \h34, \h12>>}


-----------------------------------------------------------------------------
(* The state.                                                              *)
(*   disassembler  the fields of the one Disassembler instance; `reader`   *)
(*                 is whether _reader holds a reader                       *)
(*   reader        the caller's reader: its start address, the bytes       *)
(*                 consumed from it with what each was read as, and the    *)
(*                 bytes it still holds                                    *)
(*   pending       the calls of the running disassemble still to be made   *)
(*   result        what the last disassemble call gave its caller          *)
(*   history       the kind of outcome of every call that has ended        *)

NewReader(address, stream) ==
    [address |-> address, consumed |-> <<>>, kinds |-> <<>>, ahead |-> stream]

(* The bytes the reader was created with.                                  *)
StreamOf(r) == r.consumed \o r.ahead

(* The reader after `count` reads, read as `k`.                            *)
Advance(r, k) ==
    [r EXCEPT !.consumed = @ \o SubSeq(r.ahead, 1, Len(k)),
              !.kinds = @ \o k,
              !.ahead = SubSeq(r.ahead, Len(k) + 1, Len(r.ahead))]

(* The call at the head of the chain, run against the reader.              *)
Current ==
    Exec(disassembler, Head(pending), reader.ahead,
         reader.address + Len(reader.consumed))

Init ==
    /\ disassembler \in {Constructed(m) : m \in SegmentAddressModes}
    /\ reader \in {NewReader(a, <<>>) : a \in StartAddresses}
    /\ pending = <<>>
    /\ result = NoOutcome
    /\ history = <<>>

(* The caller puts one more byte into the reader it is about to pass.      *)
Supply ==
    /\ pending = <<>>
    /\ history = <<>>
    /\ \E b \in Continuations(disassembler.segmentAddressMode, reader.ahead,
                               reader.address) :
          reader' = [reader EXCEPT !.ahead = Append(@, b)]
    /\ UNCHANGED <<disassembler, pending, result, history>>

(* disassemble(reader) up to the return of reset(reader): reset throws,    *)
(* or leaves firstByte() to be called.                                     *)
Disassemble(address, stream) ==
    /\ pending = <<>>
    /\ LET r == reset(disassembler, address)
       IN  /\ disassembler' = r.d
           /\ reader' = NewReader(address, stream)
           /\ pending' = r.push
           /\ IF r.st = "error"
              THEN /\ result' = Outcome("error", r.msg, <<>>)
                   /\ history' = Append(history, "error")
              ELSE /\ result' = NoOutcome
                   /\ UNCHANGED history

(* A variant of the end of a call in which a LayoutError is caught and the *)
(* Instruction built so far is returned in its place.                      *)
ReturnPartial(r) ==
    /\ disassembler' = r.d
    /\ reader' = Advance(reader, r.k)
    /\ CASE r.st = "error" \/ r.ret # <<>> ->
              /\ pending' = <<>>
              /\ result' = [kind |-> "instruction", msg |-> "",
                            ret |-> <<Instruction(r.d)>>]
              /\ history' = Append(history, "instruction")
         [] OTHER ->
              /\ pending' = r.push \o Tail(pending)
              /\ UNCHANGED <<result, history>>

(* The end of a call of the chain whose outcome is r: it has thrown, or    *)
(* done() has returned the Instruction, or the calls it makes go to the    *)
(* front of the chain.                                                     *)
Return(r) ==
    /\ disassembler' = r.d
    /\ reader' = Advance(reader, r.k)
    /\ CASE r.st = "error" ->
              /\ pending' = <<>>
              /\ result' = Outcome("error", r.msg, <<>>)
              /\ history' = Append(history, "error")
         [] r.st = "ok" /\ r.ret # <<>> ->
              /\ pending' = <<>>
              /\ result' = Outcome("instruction", "", r.ret)
              /\ history' = Append(history, "instruction")
         [] OTHER ->
              /\ pending' = r.push \o Tail(pending)
              /\ UNCHANGED <<result, history>>

(* The next call of the chain runs to its end.                             *)
Step ==
    /\ pending # <<>>
    /\ Current.st # "need"
    /\ Return(Current)

(* The reader's exception leaves disassemble(), thrown under call r.       *)
Raise(r) ==
    /\ disassembler' = r.d
    /\ reader' = Advance(reader, r.k)
    /\ pending' = <<>>
    /\ result' = Outcome("readerError", "", <<>>)
    /\ history' = Append(history, "readerError")

(* The next call reads past the end of the reader, and the reader raises.  *)
ReaderRaises ==
    /\ pending # <<>>
    /\ Current.st = "need"
    /\ Raise(Current)

(* Calls one after another on one instance, each with a reader of its own. *)
Next ==
    \/ \E a \in CallAddresses, s \in Streams :
          Len(history) < MaxCalls /\ Disassemble(a, s)
    \/ Step
    \/ ReaderRaises

Spec == Init /\ [][Next]_vars

(* One call, on a reader the caller has filled byte by byte.               *)
NextSweep ==
    \/ Supply
    \/ history = <<>> /\ Disassemble(reader.address, reader.ahead)
    \/ Step
    \/ ReaderRaises

SpecSweep == Init /\ [][NextSweep]_vars


(* The caller lays down at most this many bytes in front of an opcode.     *)
MaxRun == 6

(* A prefix byte of each category.                                         *)
RunPrefixes == {\h26, \h66, \h67, \hF0, \hF3}

(* Opcode bytes behind a run of prefixes: an opcode alone and one with a   *)
(* ModR/M byte; behind one prefix or none, also one with an immediate and  *)
(* the escape to the second byte.                                          *)
RunOpcodes(stream) ==
    IF Len(stream) <= 1 THEN {\h0F, \h8B, \h90, \hB8} ELSE {\h8B, \h90}

(* The bytes that may follow `stream`, whose decode by a new decoder is    *)
(* `whole`: a prefix or an opcode where firstByte() asks, and otherwise a  *)
(* byte of the kind asked for.                                             *)
RunContinuationsOf(stream, whole) ==
    CASE whole.need = "opcode" /\ whole.op = "firstByte" ->
           (IF Len(stream) < MaxRun THEN RunPrefixes ELSE {})
              \cup RunOpcodes(stream)
      [] whole.need = "opcode" /\ whole.op # "firstByte" -> {\hB6}
      [] whole.need = "modrm" -> {\h44, \hC3}
      [] whole.need = "sib" -> {\h45}
      [] whole.need = "imm" -> {\h12}
      [] OTHER -> {}

(* The caller puts one more byte into the reader of a run of prefixes.     *)
SupplyRun ==
    /\ pending = <<>>
    /\ history = <<>>
    /\ \E b \in RunContinuationsOf(reader.ahead,
                    Decode(disassembler.segmentAddressMode, reader.ahead,
                           reader.address)) :
          reader' = [reader EXCEPT !.ahead = Append(@, b)]
    /\ UNCHANGED <<disassembler, pending, result, history>>

(* One call on a reader that begins with a run of prefixes.  disassemble() *)
(* is synchronous: once called, each call of the chain is made, and a read *)
(* past the end raises.                                                    *)
NextRun ==
    \/ SupplyRun
    \/ history = <<>> /\ Disassemble(reader.address, reader.ahead)
    \/ Step
    \/ ReaderRaises

SpecRun ==
    /\ Init
    /\ [][NextRun]_vars
    /\ WF_vars(Step)
    /\ WF_vars(ReaderRaises)


-----------------------------------------------------------------------------
(* What the properties below speak of.                                     *)

(* A disassemble call has ended and no other has begun.                    *)
Ended == pending = <<>> /\ result.kind # "none"

(* The bytes of the reader of the current call.                            *)
Stream == StreamOf(reader)

(* What a newly constructed decoder of the same default size gives for     *)
(* the reader of the current call.                                         *)
Fresh == Decode(disassembler.segmentAddressMode, Stream, reader.address)

(* The decode, by a new decoder, of the bytes behind the first byte of the *)
(* current reader: of an encoding behind its one prefix.                   *)
Behind ==
    Decode(disassembler.segmentAddressMode, Tail(Stream), reader.address + 1)

(* The calls that ended before the current one all returned instructions.  *)
EarlierCallsSucceeded(count) ==
    \A i \in 1..count : history[i] = "instruction"

(* The decode context is as reset() leaves it.                             *)
FreshContext ==
    /\ disassembler.operandSize = disassembler.segmentAddressMode
    /\ disassembler.addressMode = disassembler.segmentAddressMode
    /\ ~disassembler.operandSizeOverridden
    /\ ~disassembler.addressModeOverridden
    /\ disassembler.segmentOverride = "None"
    /\ ~disassembler.isLocked
    /\ disassembler.repeatType = "None"
    /\ ~disassembler.isNear
    /\ ~disassembler.readModrm
    /\ disassembler.operandCount = 0
    /\ disassembler.operand1 = NullOperand
    /\ disassembler.operand2 = NullOperand
    /\ disassembler.operand3 = NullOperand
    /\ disassembler.opCode = "Invalid"

-----------------------------------------------------------------------------
(* C1: a Disassembler stays usable after a failed decode.  When the call   *)
(* before the one that has just ended raised (a decode error or the        *)
(* reader's exception), and the bytes of the current reader are a valid    *)
(* stream (a new decoder returns an instruction for them), the call that   *)
(* has just ended returned an instruction.                                 *)
C1_UsableAfterFailedDecode ==
    (/\ Ended
     /\ Len(history) >= 2
     /\ history[Len(history) - 1] \in {"error", "readerError"}
     /\ Fresh.out.kind = "instruction")
    => result.kind = "instruction"

(* C2: every disassemble call starts from a fresh decode context.  After   *)
(* any number of earlier calls that all succeeded, the context behind      *)
(* reset() holds the default sizes, no prefix, no ModR/M byte and no       *)
(* operand, and the call ends with exactly the outcome a newly constructed *)
(* decoder of the same default size gives for the same bytes.              *)
C2_FreshContextEachCall ==
    /\ (/\ pending = <<firstByteCall>>
        /\ reader.consumed = <<>>
        /\ EarlierCallsSucceeded(Len(history)))
       => FreshContext
    /\ (Ended /\ EarlierCallsSucceeded(Len(history) - 1))
       => result = Fresh.out

(* A second call has returned an instruction with a memory operand, behind *)
(* a first call that succeeded.                                            *)
C2_Witness ==
    /\ Ended
    /\ history = <<"instruction", "instruction">>
    /\ result.ret[1].operand1.type = "Indirect"
    /\ result = Fresh.out


-----------------------------------------------------------------------------
(* The prefix byte the current reader begins with, or -1.                  *)
LeadingByte == IF Stream = <<>> THEN -1 ELSE Stream[1]

(* The decode error of the given message, and no instruction.              *)
DecodeError(msg) == Outcome("error", msg, <<>>)

(* C3: LOCK is accepted for the legal mnemonics.  When the bytes behind a  *)
(* leading F0 decode, without the F0, to an instruction of a mnemonic the  *)
(* LOCK list names whose destination is a memory operand, the call on the  *)
(* whole stream returns an instruction of that mnemonic with locked true.  *)
C3_LockAcceptedOnLegalMnemonics ==
    (/\ Ended
     /\ LeadingByte = \hF0
     /\ Behind.out.kind = "instruction"
     /\ Behind.out.ret[1].opCode \in LockOpCodes
     /\ Behind.out.ret[1].operand1.type = "Indirect")
    => /\ result.kind = "instruction"
       /\ result.ret[1].opCode = Behind.out.ret[1].opCode
       /\ result.ret[1].isLocked

(* C4: LOCK is rejected for every other mnemonic.  When the bytes behind a *)
(* leading F0 are an encoding to which the decoder, without the F0, gives  *)
(* a mnemonic that the LOCK list does not name, the call on the whole      *)
(* stream raises `invalid use of LOCK prefix` and returns no instruction.  *)
C4_LockRejectedElsewhere ==
    (/\ Ended
     /\ LeadingByte = \hF0
     /\ Behind.d.opCode \notin LockOpCodes \cup {"Invalid"})
    => result = DecodeError("invalid use of LOCK prefix")

(* F0 89 C3 has raised the error, having read F0 and 89.                   *)
C4_Witness ==
    /\ Ended
    /\ Stream = <<\hF0, \h89, \hC3>>
    /\ Behind.out.kind = "instruction"
    /\ Behind.out.ret[1].opCode = "MOV"
    /\ result = DecodeError("invalid use of LOCK prefix")
    /\ reader.consumed = <<\hF0, \h89>>

(* C5: the repeat prefixes are accepted on the string operations.  When    *)
(* the bytes behind a leading F3 decode, without it, to INS, OUTS, MOVS,   *)
(* LODS, STOS, CMPS or SCAS, the call on the whole stream returns that     *)
(* instruction with repeat Equal; and likewise behind a leading F2 for     *)
(* CMPS and SCAS, with repeat NotEqual.                                    *)
C5_RepeatAcceptedOnStringOperations ==
    /\ (/\ Ended
        /\ LeadingByte = \hF3
        /\ Behind.out.kind = "instruction"
        /\ Behind.out.ret[1].opCode \in RepeatOpCodes)
       => /\ result.kind = "instruction"
          /\ result.ret[1].opCode = Behind.out.ret[1].opCode
          /\ result.ret[1].repeatType = "Equal"
    /\ (/\ Ended
        /\ LeadingByte = \hF2
        /\ Behind.out.kind = "instruction"
        /\ Behind.out.ret[1].opCode \in RepeatNotEqualOpCodes)
       => /\ result.kind = "instruction"
          /\ result.ret[1].opCode = Behind.out.ret[1].opCode
          /\ result.ret[1].repeatType = "NotEqual"

(* C6: the repeat prefixes are rejected elsewhere.  When the bytes behind  *)
(* a leading F3 are an encoding to which the decoder, without the F3,      *)
(* gives a mnemonic other than INS, OUTS, MOVS, LODS, STOS, CMPS and SCAS, *)
(* the call raises `invalid use of REP/REPE prefix`; behind a leading F2,  *)
(* for a mnemonic other than CMPS and SCAS, it raises `invalid use of      *)
(* REPNE prefix`; and no instruction is returned.                          *)
C6_RepeatRejectedElsewhere ==
    /\ (/\ Ended
        /\ LeadingByte = \hF3
        /\ Behind.d.opCode \notin RepeatOpCodes \cup {"Invalid"})
       => result = DecodeError("invalid use of REP/REPE prefix")
    /\ (/\ Ended
        /\ LeadingByte = \hF2
        /\ Behind.d.opCode \notin RepeatNotEqualOpCodes \cup {"Invalid"})
       => result = DecodeError("invalid use of REPNE prefix")

(* F2 90 has raised the error of REPNE.                                    *)
C6_Witness ==
    /\ Ended
    /\ Stream = <<\hF2, \h90>>
    /\ Behind.out.kind = "instruction"
    /\ Behind.out.ret[1].opCode = "NOP"
    /\ result = DecodeError("invalid use of REPNE prefix")


-----------------------------------------------------------------------------
(* The category of a prefix byte, and the error of its second occurrence.  *)
PrefixCategory(b) ==
    CASE b \in {\h26, \h2E, \h36, \h3E, \h64, \h65} -> "segment"
      [] b = \h66 -> "operandSize"
      [] b = \h67 -> "addressMode"
      [] b = \hF0 -> "lock"
      [] b \in {\hF2, \hF3} -> "repeat"
      [] OTHER -> ""

DuplicateMessage(category) ==
    CASE category = "segment" -> "invalid segment override"
      [] category = "operandSize" -> "multiple operand size prefixes"
      [] category = "addressMode" -> "multiple address mode prefixes"
      [] category = "lock" -> "multiple LOCK prefixes"
      [] category = "repeat" -> "multiple repeat prefixes"

(* The positions of stream, within its leading run of prefix bytes, whose  *)
(* prefix is of the category of an earlier one.                            *)
DuplicatePositions(stream) ==
    {j \in 1..Len(stream) :
        /\ \A i \in 1..j : stream[i] \in PrefixBytes
        /\ \E i \in 1..(j - 1) :
              PrefixCategory(stream[i]) = PrefixCategory(stream[j])}

(* The first of them, or 0.                                                *)
FirstDuplicate(stream) ==
    IF DuplicatePositions(stream) = {} THEN 0
    ELSE CHOOSE j \in DuplicatePositions(stream) :
             \A x \in DuplicatePositions(stream) : j <= x

(* A prefix flag that is set stays as it is to the end of the decode.      *)
PrefixFlagsKept ==
    pending # <<>> =>
        /\ disassembler.operandSizeOverridden => disassembler'.operandSizeOverridden
        /\ disassembler.addressModeOverridden => disassembler'.addressModeOverridden
        /\ disassembler.isLocked => disassembler'.isLocked
        /\ disassembler.segmentOverride # "None"
           => disassembler'.segmentOverride = disassembler.segmentOverride
        /\ disassembler.repeatType # "None"
           => disassembler'.repeatType = disassembler.repeatType

(* A call on a stream whose prefixes repeat a category has raised the      *)
(* error of that category at the second prefix of it, with no mnemonic.    *)
DuplicateRaised ==
    (Ended /\ FirstDuplicate(Stream) > 0)
    => /\ result = DecodeError(DuplicateMessage(
                       PrefixCategory(Stream[FirstDuplicate(Stream)])))
       /\ Len(reader.consumed) = FirstDuplicate(Stream)
       /\ disassembler.opCode = "Invalid"

(* C7: each prefix category is accepted at most once per instruction.  In  *)
(* any sequence of prefixes, the second operand-size, address-size,        *)
(* segment, LOCK or repeat prefix raises a decode error when it is read,   *)
(* before any mnemonic is assigned; and in no step of a decode does a      *)
(* prefix flag that is set go back (nor a segment or repeat kind change).  *)
C7_PrefixCategoryAtMostOnce == [](DuplicateRaised) /\ [][PrefixFlagsKept]_vars

(* 66 26 66 has raised the error of the second operand-size prefix.        *)
C7_Witness ==
    /\ Ended
    /\ Stream = <<\h66, \h26, \h66>>
    /\ FirstDuplicate(Stream) = 3
    /\ result = DecodeError("multiple operand size prefixes")

(* C8: the primary opcode bytes with no case in the one-byte map are 82,   *)
(* D6 and F1, and for a stream that begins with one of them (no prefix)    *)
(* the call raises `invalid instruction` having consumed exactly that one  *)
(* byte, and returns no instruction.                                       *)
C8_UnallocatedOpcodeRaises ==
    (Ended /\ Stream # <<>>)
    => /\ (Stream[1] \in {\h82, \hD6, \hF1})
          <=> firstByteChain(Constructed(disassembler.segmentAddressMode),
                             Stream[1]) = <<>>
       /\ (Stream[1] \in {\h82, \hD6, \hF1})
          => /\ result = DecodeError("invalid instruction")
             /\ reader.consumed = <<Stream[1]>>

(* D6 with a byte behind it has raised, and the byte behind is unread.     *)
C8_Witness ==
    /\ Ended
    /\ Stream = <<\hD6, \h90>>
    /\ reader.consumed = <<\hD6>>
    /\ reader.ahead = <<\h90>>
    /\ result = DecodeError("invalid instruction")


-----------------------------------------------------------------------------
(* What a call that has ended gave: an error and nothing else, or the      *)
(* Instruction of the context at done(), with a mnemonic.                  *)
WholeResult ==
    /\ Ended => result.kind \in {"instruction", "error", "readerError"}
    /\ result.kind \in {"none", "error", "readerError"} => result.ret = <<>>
    /\ result.kind = "instruction"
       => /\ pending = <<>>
          /\ result.ret = <<Instruction(disassembler)>>
          /\ result.ret[1].opCode # "Invalid"
          /\ result = Fresh.out

(* An Instruction comes to be returned only in the step that runs done().  *)
ReturnedByDone ==
    (result.kind # "instruction" /\ result'.kind = "instruction")
    => (pending # <<>> /\ Head(pending).op = "done")

(* C9: no partial result.  For every byte stream a disassemble call either *)
(* raises or returns an Instruction built by done(); every Instruction     *)
(* returned has a mnemonic other than Invalid; and no Instruction is       *)
(* returned by a call in which an error was raised.                        *)
C9_NoPartialResult == [](WholeResult) /\ [][ReturnedByDone]_vars

(* 8C F8 has raised at its second operand, with the mnemonic and the      *)
(* first operand in the context, and nothing was returned.                 *)
C9_Witness ==
    /\ Ended
    /\ Stream = <<\h8C, \hF8>>
    /\ result = DecodeError("invalid segment register")
    /\ disassembler.opCode = "MOV"
    /\ disassembler.operandCount = 1
    /\ disassembler.operand1.type = "Register"

(* The positions of the reader at which a byte was read as the ModR/M byte *)
ModrmReads == {i \in 1..Len(reader.kinds) : reader.kinds[i] = "modrm"}

(* The ModR/M byte is held in the context exactly when one has been read,  *)
(* and it is the byte read.                                                *)
ModrmCached ==
    /\ Cardinality(ModrmReads) <= 1
    /\ disassembler.readModrm <=> ModrmReads # {}
    /\ \A i \in ModrmReads : disassembler.modrm = reader.consumed[i]

(* Once the ModR/M byte is held, a step of the decode keeps it and reads   *)
(* no byte as a ModR/M byte.                                               *)
ModrmKept ==
    (pending # <<>> /\ disassembler.readModrm)
    => /\ disassembler'.readModrm
       /\ disassembler'.modrm = disassembler.modrm
       /\ \A i \in (Len(reader.kinds) + 1)..Len(reader'.kinds) :
             reader'.kinds[i] # "modrm"

(* C10: the ModR/M byte is read at most once per instruction.  Within one  *)
(* call the first ensureModrm() consumes exactly one byte and sets         *)
(* _readModrm, and every later demand (group dispatch, x87 escape,         *)
(* regOperand, modrmOperand) uses the byte held, consuming none.           *)
C10_ModrmReadAtMostOnce == [](ModrmCached) /\ [][ModrmKept]_vars

(* 83 C0 12: the group dispatch and modrmOperand have both asked for the   *)
(* ModR/M byte, and one was read.                                          *)
C10_Witness ==
    /\ Ended
    /\ Stream = <<\h83, \hC0, \h12>>
    /\ result.kind = "instruction"
    /\ reader.kinds = <<"opcode", "modrm", "imm">>
    /\ disassembler.modrm = \hC0

-----------------------------------------------------------------------------
(* The operand slots.                                                      *)

(* The three operand slots of a decoder or of an Instruction, in order.    *)
SlotsOf(x) == <<x.operand1, x.operand2, x.operand3>>

(* The slots that hold an operand.                                         *)
Filled(x) == {n \in 1..3 : SlotsOf(x)[n] # NullOperand}

(* The slots of a returned Instruction are filled from operand1 on, as     *)
(* many as operands were appended, and a further operand is refused once   *)
(* three are held.                                                         *)
SlotsContiguous ==
    /\ result.kind = "instruction" =>
          /\ disassembler.operandCount \in 0..3
          /\ Filled(result.ret[1]) = 1..disassembler.operandCount
    /\ disassembler.operandCount = 3 =>
          /\ nextOperand(disassembler, <<>>, literal(1)).st = "error"
          /\ nextOperand(disassembler, <<>>, literal(1)).msg =
                "invalid number of arguments"
          /\ SlotsOf(nextOperand(disassembler, <<>>, literal(1)).d) =
                SlotsOf(disassembler)

(* A call of the chain leaves the operands held as they are, and puts the  *)
(* operands it appends, if it does not throw, into the slots next free.    *)
SlotsAppended ==
    pending # <<>> =>
       /\ disassembler'.operandCount >= disassembler.operandCount
       /\ \A n \in 1..3 :
             /\ n <= disassembler.operandCount =>
                   SlotsOf(disassembler')[n] = SlotsOf(disassembler)[n]
             /\ n > disassembler'.operandCount =>
                   SlotsOf(disassembler')[n] = NullOperand
             /\ (/\ n > disassembler.operandCount
                 /\ n <= disassembler'.operandCount
                 /\ result'.kind # "error") =>
                   SlotsOf(disassembler')[n] # NullOperand

(* C11: the k-th operand appended is in slot operand-k: operands held are  *)
(* never replaced, the slots of a returned Instruction are filled from     *)
(* operand1 on without a gap, there are 0 to 3 of them, and a fourth       *)
(* operand is refused with a decode error.                                 *)
C11_OperandSlotsInAppendOrder == [](SlotsContiguous) /\ [][SlotsAppended]_vars

(* An Instruction of three operands has been returned.                     *)
C11_Witness ==
    /\ result.kind = "instruction"
    /\ Filled(result.ret[1]) = {1, 2, 3}
    /\ disassembler.operandCount = 3

-----------------------------------------------------------------------------
(* The numbers read from the reader.                                       *)

RECURSIVE LittleEndian(_)
(* b0 + 256 * b1 + 65536 * b2 + ... of the bytes <<b0, b1, b2, ...>>.      *)
LittleEndian(bytes) ==
    IF bytes = <<>> THEN 0
    ELSE Head(bytes) + 256 * LittleEndian(Tail(bytes))

(* The number of bytes of a 16-bit or a 32-bit number.                     *)
WidthOf(size) == IF size = "Int16" THEN 2 ELSE 4

(* The bytes of the current reader from `from` on that make up a number    *)
(* of the given size, as many as the reader holds of them.                 *)
NumberAt(from, size) ==
    SubSeq(Stream, from,
           IF from + WidthOf(size) - 1 <= Len(Stream)
           THEN from + WidthOf(size) - 1 ELSE Len(Stream))

(* MOV eAX..eDI, Iz (B8 to BF): the opcode byte and an immediate of the    *)
(* operand size, which is the default size when there is no prefix.        *)
MovImmediateInFull ==
    (Stream # <<>> /\ Stream[1] \in 184..191) =>
       /\ Len(reader.consumed) = 1 + WidthOf(disassembler.segmentAddressMode)
       /\ result.ret[1].operand2 =
             ImmediateOperand(
                LittleEndian(NumberAt(2, disassembler.segmentAddressMode)),
                disassembler.segmentAddressMode)

(* ADD Gv, Ev (03) with ModR/M 06 under 16-bit addressing: the operand of  *)
(* memory at a 16-bit displacement, 4 bytes in all.                        *)
AddDirectInFull ==
    (/\ Len(Stream) >= 2
     /\ SubSeq(Stream, 1, 2) = <<3, 6>>
     /\ disassembler.segmentAddressMode = "Int16") =>
       /\ Len(reader.consumed) = 4
       /\ result.ret[1].operand2 =
             IndirectOperand(
                ImmediateOperand(LittleEndian(NumberAt(3, "Int16")), "Int16"),
                "Int16", "None")

(* C12: a 16-bit immediate or displacement is read as 2 bytes and a 32-bit *)
(* one as 4 bytes, little-endian, so that a returned Instruction has       *)
(* consumed the whole encoding: 03 06 34 12 is ADD AX, [0x1234] of 4 bytes *)
(* under Int16, and B8 78 56 34 12 is MOV EAX, 0x12345678 of 5 bytes under *)
(* Int32.                                                                  *)
C12_ImmediatesReadInFull ==
    (Ended /\ result.kind = "instruction") =>
       MovImmediateInFull /\ AddDirectInFull

(* The two's-complement value of a byte.                                   *)
SignExtended(b) == IF b < 128 THEN b ELSE b - 256

(* JMP Jb (EB): the operand is the branch target, the displacement added   *)
(* to the address behind the instruction.                                  *)
ShortJumpSignExtended ==
    (Len(Stream) >= 2 /\ Stream[1] = 235) =>
       result.ret[1].operand1.value - (reader.address + Len(reader.consumed))
          = SignExtended(Stream[2])

(* MOV Gv, Ev (8B) with mod 1 and no SIB byte: the address is the base     *)
(* plus the displacement byte.                                             *)
ModrmDisplacementSignExtended ==
    (/\ Len(Stream) >= 3
     /\ Stream[1] = 139
     /\ mod(Stream[2]) = 1
     /\ (rm(Stream[2]) # 4 \/ disassembler.segmentAddressMode = "Int16")) =>
       result.ret[1].operand2.operand.right =
          ImmediateOperand(SignExtended(Stream[3]), "Int8")

(* C13: an 8-bit displacement is a two's-complement value: the byte b      *)
(* gives b below 80 and b - 256 from 80 on, in the displacement of a       *)
(* ModR/M byte of mod 1 and in a short jump; EB FE is a JMP of             *)
(* displacement -2.                                                        *)
C13_Displacement8SignExtended ==
    (Ended /\ result.kind = "instruction") =>
       ShortJumpSignExtended /\ ModrmDisplacementSignExtended

-----------------------------------------------------------------------------
(* The effective address.                                                  *)

RECURSIVE Terms(_)
(* The terms added up in an address expression.                            *)
Terms(operand) ==
    CASE operand.type = "Addition" ->
           Terms(operand.left) \cup Terms(operand.right)
      [] operand.type = "Indirect" -> Terms(operand.operand)
      [] OTHER -> {operand}

(* The 32-bit general register of the given number.                        *)
Register32(index) == RegisterOperand(RegisterNames[index * 3 + 3])

(* An instruction of opcode 8B or 8D without prefix, under 32-bit          *)
(* addressing, whose ModR/M byte asks for a SIB byte.                      *)
HasSib ==
    /\ Len(Stream) >= 3
    /\ Stream[1] \in {139, 141}
    /\ disassembler.segmentAddressMode = "Int32"
    /\ mod(Stream[2]) # 3
    /\ rm(Stream[2]) = 4

(* The scaled index of the SIB byte is a term of the address exactly when  *)
(* the index field is not 4.                                               *)
ScaledIndexPresent ==
    HasSib =>
       LET index == (Stream[3] \div 8) % 8
           scale == Stream[3] \div 64
       IN  IF index # 4
           THEN ScaleOperand(Register32(index), 2 ^ scale)
                   \in Terms(result.ret[1].operand2)
           ELSE \A t \in Terms(result.ret[1].operand2) : t.type # "Scale"

(* C14: when the index field of the SIB byte is not 4, the address holds   *)
(* Scale(index register, 1 << scale) for each scale 0 to 3, scale 0 (the   *)
(* factor 1) among them; only index 4 leaves the scaled index out.  8D 04  *)
(* 19 is LEA EAX, [ECX+EBX].                                               *)
C14_ScaledIndexForEveryScale ==
    (Ended /\ result.kind = "instruction") =>
       /\ ScaledIndexPresent
       /\ (Stream = <<141, 4, 25>> /\ disassembler.segmentAddressMode = "Int32")
             => result.ret[1].operand2 =
                   AdditionOperand(Register32(1),
                                   ScaleOperand(Register32(3), 1))

(* The source operand of a LEA is an address expression that is not        *)
(* wrapped: a register, a number or a sum of registers, scaled registers   *)
(* and numbers.                                                            *)
LeaSourceBare ==
    disassembler.opCode = "LEA" =>
       /\ disassembler.operand2.type
             \in {"Null", "Register", "Immediate", "Addition"}
       /\ \A t \in Terms(disassembler.operand2) :
             t.type \in {"Null", "Register", "Immediate", "Scale"}
       /\ result.kind = "instruction" =>
             /\ result.ret[1].operand2 = disassembler.operand2
             /\ result.ret[1].operand2.type
                   \in {"Register", "Immediate", "Addition"}
             /\ mod(disassembler.modrm) # 3

(* A LEA whose ModR/M byte has mod 3 ends in a decode error.               *)
LeaOfRegisterRaises ==
    (/\ Ended
     /\ disassembler.opCode = "LEA"
     /\ disassembler.readModrm
     /\ mod(disassembler.modrm) = 3) =>
       result = DecodeError("expected memory location")

(* C15: the source operand of LEA (8D), decoded with DontDereference, is   *)
(* never an Indirect operand: for mod other than 3 it is the address       *)
(* expression itself, and for mod 3 the decode raises an error and returns *)
(* no register operand.                                                    *)
C15_LeaNeverIndirect == LeaSourceBare /\ LeaOfRegisterRaises

(* A LEA has been returned whose source is the sum decoded from a SIB byte *)
(* and a displacement.                                                     *)
C15_Witness ==
    /\ result.kind = "instruction"
    /\ result.ret[1].opCode = "LEA"
    /\ result.ret[1].operand2.type = "Addition"
    /\ reader.kinds = <<"opcode", "modrm", "sib", "imm">>

-----------------------------------------------------------------------------
(* The operand size and the address size.                                  *)

Opposite(size) == IF size = "Int16" THEN "Int32" ELSE "Int16"

(* The prefix bytes in front of the opcode, of the bytes read so far.      *)
LeadingPrefixes(stream) ==
    {stream[j] : j \in {i \in 1..Len(stream) :
                           \A h \in 1..i : stream[h] \in PrefixBytes}}

(* From the first reset on, each of the two sizes is Int16 or Int32: the   *)
(* default size, or its opposite once its prefix has been applied.         *)
SizesAre16Or32 ==
    (pending # <<>> \/ result.kind # "none") =>
       /\ disassembler.operandSize \in {"Int16", "Int32"}
       /\ disassembler.addressMode \in {"Int16", "Int32"}
       /\ disassembler.operandSize =
             IF disassembler.operandSizeOverridden
             THEN Opposite(disassembler.segmentAddressMode)
             ELSE disassembler.segmentAddressMode
       /\ disassembler.addressMode =
             IF disassembler.addressModeOverridden
             THEN Opposite(disassembler.segmentAddressMode)
             ELSE disassembler.segmentAddressMode

(* In a returned Instruction the operand size is switched exactly by a 66  *)
(* prefix and the address size exactly by a 67 prefix.                     *)
SizesByPrefix ==
    result.kind = "instruction" =>
       /\ disassembler.operandSizeOverridden
             <=> \h66 \in LeadingPrefixes(reader.consumed)
       /\ disassembler.addressModeOverridden
             <=> \h67 \in LeadingPrefixes(reader.consumed)

(* ADD Gv, Ev (03) with ModR/M C3 under the default size Int32, without    *)
(* and with the 66 prefix.                                                 *)
AddRegistersBySize ==
    (result.kind = "instruction" /\ disassembler.segmentAddressMode = "Int32")
       => /\ Stream = <<\h03, \hC3>> =>
                /\ result.ret[1].opCode = "ADD"
                /\ result.ret[1].operand1 = RegisterOperand("EAX")
                /\ result.ret[1].operand2 = RegisterOperand("EBX")
          /\ Stream = <<\h66, \h03, \hC3>> =>
                /\ result.ret[1].opCode = "ADD"
                /\ result.ret[1].operand1 = RegisterOperand("AX")
                /\ result.ret[1].operand2 = RegisterOperand("BX")

(* C16: throughout a decode the operand size and the address size are each *)
(* Int16 or Int32; one 66 prefix makes the operand size the opposite of    *)
(* the default size and leaves the address size, one 67 prefix makes the   *)
(* address size the opposite and leaves the operand size; under Int32, 03  *)
(* C3 is ADD EAX, EBX and 66 03 C3 is ADD AX, BX.                          *)
C16_SizesSwitchedByOwnPrefix ==
    SizesAre16Or32 /\ SizesByPrefix /\ AddRegistersBySize

(* 66 03 C3 has been decoded under the default size Int32.                 *)
C16_Witness ==
    /\ result.kind = "instruction"
    /\ disassembler.segmentAddressMode = "Int32"
    /\ reader.consumed = <<\h66, \h03, \hC3>>
    /\ disassembler.operandSize = "Int16"
    /\ disassembler.addressMode = "Int32"

-----------------------------------------------------------------------------
(* Construction.  The caller constructs the instance with a default size   *)
(* of its choice, any member of Size, and then makes its calls on it.      *)

InitConstruct ==
    /\ disassembler = NoInstance
    /\ reader \in {NewReader(a, <<>>) : a \in StartAddresses}
    /\ pending = <<>>
    /\ result = NoOutcome
    /\ history = <<>>

(* new Disassembler(segmentAddressMode), once.                             *)
Construct(segmentAddressMode) ==
    /\ disassembler = NoInstance
    /\ result = NoOutcome
    /\ disassembler' = constructor(segmentAddressMode).d
    /\ result' = IF constructor(segmentAddressMode).st = "error"
                 THEN Outcome("constructionError",
                              constructor(segmentAddressMode).msg, <<>>)
                 ELSE NoOutcome
    /\ UNCHANGED <<reader, pending, history>>

NextConstruct ==
    \/ \E size \in DOMAIN SizeNames : Construct(SizeNames[size])
    \/ disassembler # NoInstance /\ Next

SpecConstruct == InitConstruct /\ [][NextConstruct]_vars

(* The constructor throws for every member of Size but Int16 and Int32,    *)
(* and for these two gives an instance of that default size.               *)
ConstructorChecksSize ==
    \A size \in DOMAIN SizeNames :
       IF SizeNames[size] \in {"Int16", "Int32"}
       THEN /\ constructor(SizeNames[size]).st = "ok"
            /\ constructor(SizeNames[size]).d.segmentAddressMode =
                  SizeNames[size]
       ELSE /\ constructor(SizeNames[size]).st = "error"
            /\ constructor(SizeNames[size]).msg = "invalid default size"
            /\ constructor(SizeNames[size]).d = NoInstance

(* C17: construction with a default size other than Int16 and Int32 is     *)
(* rejected with the error `invalid default size` and leaves no instance;  *)
(* construction with Int16 or Int32 succeeds; so every instance there is   *)
(* has Int16 or Int32 as its default size.                                 *)
C17_DefaultSizeChecked ==
    /\ ConstructorChecksSize
    /\ disassembler # NoInstance =>
          disassembler.segmentAddressMode \in {"Int16", "Int32"}
    /\ result.kind = "constructionError" =>
          /\ disassembler = NoInstance
          /\ result.msg = "invalid default size"
          /\ pending = <<>>
    /\ (disassembler = NoInstance) =>
          (result.kind \in {"none", "constructionError"} /\ history = <<>>)

(* A construction has been rejected.                                       *)
C17_Witness ==
    /\ result = Outcome("constructionError", "invalid default size", <<>>)
    /\ disassembler = NoInstance

-----------------------------------------------------------------------------
(* The address of the instruction.                                         *)

(* While a call runs, the address held is the one the reader had when the  *)
(* call began, whatever has been read since.                               *)
AddressCaptured ==
    pending # <<>> => disassembler.address = reader.address

(* C18: the address of a returned Instruction is the address the reader    *)
(* had when disassemble was called: it is taken before the first byte is   *)
(* read, and is the address of the first prefix byte where there are       *)
(* prefixes, not that of the opcode byte.                                  *)
C18_AddressIsStartAddress ==
    /\ AddressCaptured
    /\ result.kind = "instruction" =>
          result.ret[1].address = reader.address

(* An Instruction behind a prefix has been returned by the second call on  *)
(* the instance, its reader at another address than the initial one.       *)
C18_Witness ==
    /\ result.kind = "instruction"
    /\ history = <<"instruction", "instruction">>
    /\ reader.consumed = <<\h67, \h8B, \h46, \h12>>
    /\ reader.address = \h2000
    /\ result.ret[1].address = \h2000

-----------------------------------------------------------------------------
(* The order of the prefixes.                                              *)

(* The number of prefix bytes in front of the opcode.                      *)
PrefixRun(stream) ==
    Cardinality({i \in 1..Len(stream) :
                    \A h \in 1..i : stream[h] \in PrefixBytes})

(* No two of the first n bytes are prefixes of one category.               *)
OncePerCategory(stream, n) ==
    \A i \in 1..n : \A j \in 1..n :
       i # j => PrefixCategory(stream[i]) # PrefixCategory(stream[j])

(* The orders in which n bytes can be put.                                 *)
Orders(n) ==
    {f \in [1..n -> 1..n] : \A i \in 1..n : \A j \in 1..n :
                               f[i] = f[j] => i = j}

(* The stream with its first n bytes in the order f.                       *)
Reordered(stream, n, f) ==
    [i \in 1..Len(stream) |-> IF i <= n THEN stream[f[i]] ELSE stream[i]]

(* C19: the order of the prefixes does not matter: where each category of  *)
(* prefix occurs at most once, the call gives for every order of the       *)
(* prefix bytes in front of the same opcode bytes the same Instruction or  *)
(* the same error.                                                         *)
C19_PrefixOrderIrrelevant ==
    (Ended /\ OncePerCategory(Stream, PrefixRun(Stream))) =>
       \A f \in Orders(PrefixRun(Stream)) :
          Decode(disassembler.segmentAddressMode,
                 Reordered(Stream, PrefixRun(Stream), f),
                 reader.address).out = result

(* An Instruction behind three prefixes has been returned.                 *)
C19_Witness ==
    /\ result.kind = "instruction"
    /\ PrefixRun(Stream) = 3
    /\ OncePerCategory(Stream, 3)

-----------------------------------------------------------------------------
(* The destination under LOCK.                                             *)

(* The general registers a ModR/M byte of mod 3 can name.                  *)
DestinationRegisters ==
    {RegisterOperand(RegisterNames[n]) : n \in 1..24}

(* A decoder that has taken the LOCK prefix and holds no operand refuses   *)
(* a register as its first operand, and takes an operand of memory.        *)
LockedDestinationRefused ==
    (disassembler.isLocked /\ disassembler.operandCount = 0) =>
       /\ \A operand \in DestinationRegisters :
             /\ nextOperand(disassembler, <<>>, operand).st = "error"
             /\ nextOperand(disassembler, <<>>, operand).msg =
                   "invalid destination"
             /\ nextOperand(disassembler, <<>>, operand).d.operand1 =
                   NullOperand
       /\ nextOperand(disassembler, <<>>,
                      IndirectOperand(register("BX"), "Int16", "None")).st
             = "ok"

(* No Instruction returned, and no decoder at any point, has the LOCK      *)
(* prefix together with a register as first operand.                       *)
NoLockedRegisterDestination ==
    /\ disassembler.isLocked => disassembler.operand1.type # "Register"
    /\ result.kind = "instruction" =>
          ~(/\ result.ret[1].isLocked
            /\ result.ret[1].operand1.type = "Register")

(* A call on LOCK, an opcode of the arithmetic block with a register as    *)
(* destination (F0 01 C3, ADD with mod 3) ends in a decode error.          *)
LockedRegisterFormRaises ==
    (/\ Ended
     /\ Len(Stream) >= 3
     /\ Stream[1] = \hF0
     /\ Stream[2] = \h01
     /\ mod(Stream[3]) = 3) => result.kind = "error"

(* C20: under LOCK the destination is never a register: when the LOCK      *)
(* prefix has been taken and the first operand appended is a Register      *)
(* operand, as in F0 01 C3, the call raises a decode error, so that no     *)
(* returned Instruction is locked with a Register as operand1.             *)
C20_NoRegisterDestinationUnderLock ==
    /\ LockedDestinationRefused
    /\ NoLockedRegisterDestination
    /\ LockedRegisterFormRaises

(* F0 01 C3 has ended in a decode error, the LOCK prefix taken.            *)
C20_Witness ==
    /\ Ended
    /\ Stream = <<\hF0, \h01, \hC3>>
    /\ disassembler.isLocked
    /\ result.kind = "error"

-----------------------------------------------------------------------------
(* The arithmetic block.                                                   *)

(* The mnemonic of a first byte of the regular arithmetic block, of TEST,  *)
(* XCHG and MOV with two ModR/M operands, and "" for any other byte.       *)
BlockMnemonic(first) ==
    CASE first < \h40 /\ first % 8 <= 5 -> BlockOpCodes[first \div 8 + 1]
      [] first \in {\h84, \h85} -> "TEST"
      [] first \in {\h86, \h87} -> "XCHG"
      [] first \in \h88..\h8B -> "MOV"
      [] OTHER -> ""

(* The place of the byte in the six-way pattern: 0 (Eb, Gb), 1 (Ev, Gv),   *)
(* 2 (Gb, Eb), 3 (Gv, Ev), 4 (AL, Ib), 5 (eAX, Iv).                        *)
BlockColumn(first) ==
    CASE first < \h40 -> first % 8
      [] first \in {\h84, \h85, \h86, \h87} -> first % 2
      [] OTHER -> first % 4

(* The operands of a returned Instruction have the shape of the column.    *)
BlockShape(instruction, column, operandSize) ==
    LET size == IF column % 2 = 0 THEN "Int8" ELSE operandSize
        registers == {decodeRegister(n, size, <<>>).val : n \in 0..7}
        memory(operand) == operand.type = "Indirect" /\ operand.size = size
    IN  /\ instruction.operand3 = NullOperand
        /\ CASE column \in {0, 1} ->
                  /\ instruction.operand1 \in registers
                        \/ memory(instruction.operand1)
                  /\ instruction.operand2 \in registers
             [] column \in {2, 3} ->
                  /\ instruction.operand1 \in registers
                  /\ instruction.operand2 \in registers
                        \/ memory(instruction.operand2)
             [] OTHER ->
                  /\ instruction.operand1 =
                        decodeRegister(0, size, <<>>).val
                  /\ instruction.operand2.type = "Immediate"
                  /\ instruction.operand2.size = size

(* C21: each of the six opcodes n+0 to n+5 of the blocks at 00, 08, 10,    *)
(* 18, 20, 28, 30 and 38 decodes, without raising, to the mnemonic of its  *)
(* block with the operands (Eb, Gb), (Ev, Gv), (Gb, Eb), (Gv, Ev),         *)
(* (AL, Ib), (eAX, Iv) in this order, and TEST 84/85, XCHG 86/87 and MOV   *)
(* 88 to 8B have the same two-operand shapes.                              *)
C21_ArithmeticBlockSixWay ==
    (/\ Ended
     /\ Stream # <<>>
     /\ BlockMnemonic(Stream[1]) # ""
     /\ result.kind # "readerError"
     /\ result.msg # "invalid sib byte") =>
       /\ result.kind = "instruction"
       /\ result.ret[1].opCode = BlockMnemonic(Stream[1])
       /\ BlockShape(result.ret[1], BlockColumn(Stream[1]),
                     disassembler.operandSize)

(* The numbers among the terms of the address of operand2, by their size.  *)
DisplacementSizes(instruction) ==
    {t.size : t \in {u \in Terms(instruction.operand2) :
                        u.type = "Immediate"}}

(* The displacement behind a SIB byte, for a ModR/M byte of mod 0 that     *)
(* asks for no displacement of its own.                                    *)
SibDisplacementByScale ==
    (HasSib /\ mod(Stream[2]) = 0 /\ result.kind # "readerError") =>
       LET base == Stream[3] % 8
           scale == Stream[3] \div 64
       IN  CASE base # 5 ->
                  /\ result.kind = "instruction"
                  /\ reader.kinds = <<"opcode", "modrm", "sib">>
                  /\ DisplacementSizes(result.ret[1]) = {}
                  /\ Register32(base) \in Terms(result.ret[1].operand2)
             [] base = 5 /\ scale \in {0, 1} ->
                  /\ result.kind = "instruction"
                  /\ DisplacementSizes(result.ret[1]) = {"Int32"}
             [] base = 5 /\ scale = 2 ->
                  /\ result.kind = "instruction"
                  /\ DisplacementSizes(result.ret[1]) = {"Int8"}
             [] OTHER -> result = DecodeError("invalid sib byte")

(* C22: behind a SIB byte of base 5 the scale field chooses the            *)
(* displacement: 0 and 1 a 32-bit one, 2 an 8-bit one, and 3 raises        *)
(* `invalid sib byte`; with any other base no displacement is read for the *)
(* SIB byte and the address is the base register, with the scaled index    *)
(* where there is one.                                                     *)
C22_SibDisplacementByScale == Ended => SibDisplacementByScale

-----------------------------------------------------------------------------
(* The escape bytes.                                                       *)

(* Combinations of escape byte and ModR/M byte to which the maps of the    *)
(* escapes allocate no instruction.                                        *)
UnallocatedEscape(first, modrm) ==
    \/ first = \hD9 /\ mod(modrm) # 3 /\ reg(modrm) = 1
    \/ first = \hD9 /\ mod(modrm) = 3 /\ reg(modrm) = 2 /\ rm(modrm) # 0
    \/ first = \hDA /\ mod(modrm) = 3 /\ reg(modrm) = 4
    \/ first = \hDB /\ mod(modrm) # 3 /\ reg(modrm) \in {4, 6}

(* C23: an escape byte D8 to DF with a ModR/M byte of a combination of     *)
(* mod form, reg and rm that its map does not allocate (D9 with mod not 3  *)
(* and reg 1; D9 with mod 3, reg 2 and rm not 0; DA with mod 3 and reg 4;  *)
(* DB with mod not 3 and reg 4 or 6) raises a decode error, and is never   *)
(* decoded as a mnemonic of another reg value or of another escape byte.   *)
C23_UnallocatedEscapeRaises ==
    (/\ Ended
     /\ Len(Stream) >= 2
     /\ UnallocatedEscape(Stream[1], Stream[2])
     /\ result.kind # "readerError") => result.kind = "error"

-----------------------------------------------------------------------------
(* The groups.                                                             *)

(* The group of the opcode at the front of the stream, "" where the stream *)
(* does not begin with a group opcode.                                     *)
GroupOf(stream) ==
    CASE stream = <<>> -> ""
      [] stream[1] \in {\h80, \h81, \h83} -> "1"
      [] stream[1] \in {\hC0, \hC1, \hD0, \hD1, \hD2, \hD3} -> "2"
      [] stream[1] \in {\hF6, \hF7} -> "3"
      [] stream[1] = \hFE -> "4"
      [] stream[1] = \hFF -> "5"
      [] Len(stream) >= 2 /\ stream[1] = \h0F /\ stream[2] = \h00 -> "6"
      [] Len(stream) >= 2 /\ stream[1] = \h0F /\ stream[2] = \h01 -> "7"
      [] Len(stream) >= 2 /\ stream[1] = \h0F /\ stream[2] = \hBA -> "8"
      [] OTHER -> ""

(* The mnemonic each group lists for the reg field 0 to 7; "" is a cell    *)
(* that is unused or not listed.                                           *)
GroupTable(group) ==
    CASE group = "1" -> <<"ADD", "OR", "ADC", "SBB", "AND", "SUB", "XOR", "CMP">>
      [] group = "2" -> <<"ROL", "ROR", "RCL", "RCR", "SHL", "SHR", "", "SAR">>
      [] group = "3" -> <<"TEST", "", "NOT", "NEG", "MUL", "IMUL", "DIV", "IDIV">>
      [] group = "4" -> <<"INC", "DEC", "", "", "", "", "", "">>
      [] group = "5" -> <<"INC", "DEC", "CALL", "CALL", "JMP", "JMP", "PUSH", "">>
      [] group = "6" -> <<"SLDT", "SIDT", "LGDT", "LTR", "VERR", "VERW", "", "">>
      [] group = "7" -> <<"SGDT", "SIDT", "LGDT", "LIDT", "SMSW", "", "LMSW", "">>
      [] group = "8" -> <<"", "", "", "", "BT", "BTS", "BTR", "BTC">>

(* The ModR/M byte behind a group opcode has been read.                    *)
GroupCellRead ==
    /\ Ended
    /\ GroupOf(Stream) # ""
    /\ disassembler.readModrm

(* The mnemonic listed for the cell the ModR/M byte selects.               *)
GroupCell == GroupTable(GroupOf(Stream))[reg(disassembler.modrm) + 1]

(* C24: behind a group opcode, a reg field that selects an unused or       *)
(* unlisted cell (group 2 reg 6, group 3 reg 1, group 4 reg 2 to 7, group  *)
(* 5 reg 7, group 6 reg 6 and 7, group 7 reg 5 and 7, group 8 reg 0 to 3)  *)
(* raises a decode error and returns no instruction, and a reg field that  *)
(* selects a listed cell selects the mnemonic listed for it.               *)
C24_GroupCellsByReg ==
    GroupCellRead =>
       IF GroupCell = ""
       THEN result.kind = "error" /\ disassembler.opCode = "Invalid"
       ELSE /\ disassembler.opCode = GroupCell
            /\ result.kind = "instruction" =>
                  result.ret[1].opCode = GroupCell
            /\ (mod(disassembler.modrm) # 3 /\ result.kind # "readerError")
                  => result.kind = "instruction"

(* The unused cell of group 2 has been selected and has raised.            *)
C24_Witness ==
    /\ Ended
    /\ Stream = <<\hD1, \h30>>
    /\ result.kind = "error"
    /\ reader.kinds = <<"opcode", "modrm">>

-----------------------------------------------------------------------------
(* The two-byte map.                                                       *)

(* An operand Eb: a byte register, or memory of one byte.                  *)
IsEb(operand) ==
    \/ operand \in {decodeRegister(n, "Int8", <<>>).val : n \in 0..7}
    \/ operand.type = "Indirect" /\ operand.size = "Int8"

(* C25: for each second byte 90 to 9F, 0F xx decodes to the SETcc of that  *)
(* byte with one operand Eb, given by the ModR/M byte behind the opcode    *)
(* and the SIB and displacement bytes this asks for, which are consumed;   *)
(* the sixteen cells behave alike.                                         *)
C25_SetccTakesEb ==
    (/\ Ended
     /\ Len(Stream) >= 2
     /\ Stream[1] = \h0F
     /\ Stream[2] \in \h90..\h9F
     /\ result.kind # "readerError"
     /\ result.msg # "invalid sib byte") =>
       /\ result.kind = "instruction"
       /\ result.ret[1].opCode = SetOpCodes[Stream[2] - \h90 + 1]
       /\ Len(reader.kinds) >= 3
       /\ reader.kinds[3] = "modrm"
       /\ IsEb(result.ret[1].operand1)
       /\ result.ret[1].operand2 = NullOperand
       /\ result.ret[1].operand3 = NullOperand

-----------------------------------------------------------------------------
(* Near and far transfers.                                                 *)

(* The stream begins with a near form of RET, CALL or JMP.                 *)
NearForm(stream) ==
    /\ stream # <<>>
    /\ \/ stream[1] \in {\hC2, \hC3, \hE8, \hE9, \hEB}
       \/ Len(stream) >= 2 /\ stream[1] = \hFF /\ reg(stream[2]) \in {2, 4}

(* The stream begins with a far form of RET, CALL or JMP.                  *)
FarForm(stream) ==
    /\ stream # <<>>
    /\ \/ stream[1] \in {\hCA, \hCB, \h9A, \hEA}
       \/ Len(stream) >= 2 /\ stream[1] = \hFF /\ reg(stream[2]) \in {3, 5}

(* C26: the near flag tells the near transfers from the far ones: a        *)
(* returned RET, CALL or JMP of a near form (C2, C3, E8, E9, EB, FF /2,    *)
(* FF /4) has isNear true, and one of a far form (CA, CB, 9A, EA, FF /3,   *)
(* FF /5) has isNear false.                                                *)
C26_NearFlagByForm ==
    (Ended /\ result.kind = "instruction") =>
       /\ NearForm(Stream) =>
             /\ result.ret[1].opCode \in {"RET", "CALL", "JMP"}
             /\ result.ret[1].isNear
       /\ FarForm(Stream) =>
             /\ result.ret[1].opCode \in {"RET", "CALL", "JMP"}
             /\ ~result.ret[1].isNear

(* An operand E of the given size: a register of that size, or memory of   *)
(* that size.                                                              *)
IsE(operand, size) ==
    \/ operand \in {decodeRegister(n, size, <<>>).val : n \in 0..7}
    \/ operand.type = "Indirect" /\ operand.size = size

(* C27: the two sign-extending moves of the two-byte map are both MOVSX:   *)
(* 0F BE is MOVSX Gv, Eb and 0F BF is MOVSX Gv, Ew; BSF is 0F BC alone.    *)
C27_BothSignExtendingMovesAreMovsx ==
    (/\ Ended
     /\ result.kind = "instruction"
     /\ Len(Stream) >= 2
     /\ Stream[1] = \h0F) =>
       /\ Stream[2] \in {\hBE, \hBF} =>
             /\ result.ret[1].opCode = "MOVSX"
             /\ IsE(result.ret[1].operand1, disassembler.operandSize)
             /\ result.ret[1].operand1.type = "Register"
             /\ IsE(result.ret[1].operand2,
                    IF Stream[2] = \hBE THEN "Int8" ELSE "Int16")
       /\ result.ret[1].opCode = "BSF" => Stream[2] = \hBC

(* The control register and the debug register of the given number.        *)
ControlRegister(n) ==
    RegisterOperand(RegisterNames[RegisterValue("CR0") + n + 1])

DebugRegister(n) ==
    RegisterOperand(RegisterNames[RegisterValue("DR0") + n + 1])

(* A MOV to or from a control or debug register whose ModR/M byte the      *)
(* reader holds.                                                           *)
SpecialMove ==
    /\ Ended
    /\ Len(Stream) >= 3
    /\ Stream[1] = \h0F
    /\ Stream[2] \in \h20..\h23

(* The outcome of such a move, by its ModR/M byte.                         *)
SpecialMoveOutcome ==
    LET control == Stream[2] \in {\h20, \h22}
        fromSpecial == Stream[2] \in {\h20, \h21}
        general == Register32(rm(Stream[3]))
        special == IF control THEN ControlRegister(reg(Stream[3]) % 4)
                   ELSE DebugRegister(reg(Stream[3]))
    IN  /\ reader.consumed = SubSeq(Stream, 1, 3)
        /\ reader.kinds = <<"opcode", "opcode", "modrm">>
        /\ IF control /\ reg(Stream[3]) > 3
           THEN result = DecodeError("invalid control register")
           ELSE /\ result.kind = "instruction"
                /\ result.ret[1].opCode = "MOV"
                /\ result.ret[1].operand1 =
                      IF fromSpecial THEN general ELSE special
                /\ result.ret[1].operand2 =
                      IF fromSpecial THEN special ELSE general
                /\ result.ret[1].operand3 = NullOperand

(* C28: in MOV to and from the control and debug registers (0F 20 to 0F    *)
(* 23) the r/m field is a 32-bit general register whatever the mod field   *)
(* is, and no SIB or displacement byte is consumed; a control register     *)
(* form with a reg field above 3 raises `invalid control register`; a      *)
(* debug register form takes every reg field 0 to 7 as DR0 to DR7.         *)
C28_SpecialMovesTakeRegisters == SpecialMove => SpecialMoveOutcome

(* MOV from CR0 with a ModR/M byte of mod 0 and rm 4, which elsewhere asks *)
(* for a SIB byte, has been decoded from three bytes.                      *)
C28_Witness ==
    /\ result.kind = "instruction"
    /\ Stream = <<\h0F, \h20, \h04>>
    /\ result.ret[1].operand1 = RegisterOperand("ESP")
    /\ result.ret[1].operand2 = RegisterOperand("CR0")

(* The reg field of the ModR/M byte of MOV Ev, Sw (8C) or MOV Sw, Ew (8E)  *)
(* standing first in the stream.                                           *)
SegmentMove ==
    /\ Len(Stream) >= 2
    /\ Stream[1] \in {\h8C, \h8E}

(* The operand of the segment move that names the segment register.        *)
SwOperand ==
    IF Stream[1] = \h8C THEN result.ret[1].operand2
    ELSE result.ret[1].operand1

(* What the segment move came to, given that the bytes it asked for were   *)
(* there: the segment register of the reg field, or the error.             *)
SegmentMoveOutcome ==
    IF reg(Stream[2]) <= 5
    THEN /\ result.kind = "instruction"
         /\ result.ret[1].opCode = "MOV"
         /\ SwOperand =
                SegmentOperand(
                    <<"ES", "CS", "SS", "DS", "FS", "GS">>[reg(Stream[2]) + 1])
    ELSE result = DecodeError("invalid segment register")

(* The Segment operands of an instruction.                                 *)
SegmentOperandsOf(instruction) ==
    {o \in {instruction.operand1, instruction.operand2, instruction.operand3} :
        o.type = "Segment"}

(* C29: a segment move (8C, 8E) whose bytes are all there and whose SIB    *)
(* byte, if any, was accepted yields the segment register ES, CS, SS, DS,  *)
(* FS, GS for a reg field of 0..5 and raises 'invalid segment register'    *)
(* for 6 and 7; and no instruction returned holds a Segment operand other  *)
(* than ES..GS.                                                            *)
C29_SegmentsRangeChecked ==
    Ended =>
        /\ (SegmentMove /\ result.kind # "readerError"
                /\ result # DecodeError("invalid sib byte"))
               => SegmentMoveOutcome
        /\ result.kind = "instruction" =>
               \A o \in SegmentOperandsOf(result.ret[1]) :
                   o.seg \in {"ES", "CS", "SS", "DS", "FS", "GS"}

(* MOV GS, [EAX] (8E 28) is returned with GS, and reg 6 (8E 30) is         *)
(* refused.                                                                *)
C29_Witness ==
    /\ Ended
    /\ \/ /\ Stream = <<\h8E, \h28>>
          /\ result.kind = "instruction"
          /\ result.ret[1].operand1 = SegmentOperand("GS")
       \/ /\ Stream = <<\h8E, \h30>>
          /\ result = DecodeError("invalid segment register")

------------------------------------------------------------------------------
(* The end of every call.                                                  *)

(* The categories of prefix, each with a test of its own for a second one. *)
PrefixCategories == {"segment", "operandSize", "addressMode", "lock", "repeat"}

(* firstByte() is the call to be made next.                                *)
AtFirstByte == pending # <<>> /\ Head(pending).op = "firstByte"

(* firstByte() is entered behind prefixes alone, one of a category at      *)
(* most: behind five bytes at most.                                        *)
PrefixesBounded ==
    AtFirstByte =>
       /\ \A i \in 1..Len(reader.consumed) : reader.consumed[i] \in PrefixBytes
       /\ OncePerCategory(reader.consumed, Len(reader.consumed))
       /\ Len(reader.consumed) <= Cardinality(PrefixCategories)

(* The number of bytes the current call has read as kind k.                *)
KindCount(k) ==
    Cardinality({i \in 1..Len(reader.kinds) : reader.kinds[i] = k})

(* A call reads the prefixes and two opcode bytes at most, one ModR/M      *)
(* byte, one SIB byte, and eight bytes of displacement and immediate.      *)
BoundedReads ==
    /\ KindCount("opcode") <= Cardinality(PrefixCategories) + 2
    /\ KindCount("modrm") <= 1
    /\ KindCount("sib") <= 1
    /\ KindCount("imm") <= 8
    /\ Len(reader.kinds) =
          KindCount("opcode") + KindCount("modrm") + KindCount("sib")
             + KindCount("imm")

(* How far a call has come: 0 while firstByte() is still to be made        *)
(* (prefixes), 1 once an opcode has been dispatched and opcode bytes alone *)
(* have been read, 2 once a byte behind the opcode has been read, 3 when   *)
(* the call has ended.                                                     *)
Progress(chain, kinds) ==
    IF chain = <<>> THEN 3
    ELSE IF \E i \in 1..Len(chain) : chain[i].op = "firstByte" THEN 0
    ELSE IF \A i \in 1..Len(kinds) : kinds[i] = "opcode" THEN 1
    ELSE 2

(* A step of a call never goes back, and ends the call with an outcome.    *)
MovesForward ==
    pending # <<>> =>
       /\ Progress(pending', reader'.kinds) >= Progress(pending, reader.kinds)
       /\ pending' = <<>> =>
             result'.kind \in {"instruction", "error", "readerError"}

(* C30: every disassemble call terminates.  firstByte() is entered behind  *)
(* at most one prefix of each of the five categories, so it re-enters      *)
(* itself five times at most; a call reads a bounded number of bytes; it   *)
(* only moves forward, from the prefixes to the opcode to the bytes behind *)
(* the opcode; and a call that has begun ends, in an Instruction or in an  *)
(* error.                                                                  *)
C30_EveryCallTerminates ==
    /\ [](PrefixesBounded /\ BoundedReads)
    /\ [][MovesForward]_vars
    /\ (pending # <<>>) ~> Ended

(* Five prefixes, one of each category, have been accepted and a sixth     *)
(* byte, a second operand size prefix, has ended the call in its error.    *)
C30_Witness ==
    /\ Ended
    /\ reader.consumed = <<\h26, \hF3, \h67, \hF0, \h66, \h66>>
    /\ result = DecodeError("multiple operand size prefixes")
    /\ disassembler.isLocked
    /\ disassembler.repeatType # "None"
    /\ disassembler.segmentOverride = "ES"

=============================================================================
